---------------------------- MODULE Spec2Model ----------------------------
(***************************************************************************)
(* Model of src/src/php/preg.js (jLive): the PHP-style preg_* functions    *)
(* layered on the JavaScript RegExp engine.                                *)
(*                                                                         *)
(* Text is modelled as a sequence of one-character strings, so that        *)
(* slicing, indexOf and concatenation are computed as the code computes    *)
(* them.  Positions are 0-based as in JavaScript; Sequences are 1-based.   *)
(*                                                                         *)
(* The native engine (new RegExp, exec, String.prototype.replace/split)    *)
(* is modelled for the pattern dialect made of: ordinary characters,       *)
(* "\c" escapes, ".", "^", capturing groups "( )" and the greedy "*"       *)
(* quantifier.  The characters [ ] { } | + ? $ never occur unescaped in    *)
(* the pattern bodies the model draws.                                     *)
(***************************************************************************)
EXTENDS Integers, Sequences, FiniteSets, TLC

(***************************************************************************)
(* Program constants (preg.js:19-31)                                       *)
(***************************************************************************)
PREG_PATTERN_ORDER == 1
PREG_SET_ORDER == 2
PREG_OFFSET_CAPTURE == 256
PREG_UNMATCHED_AS_NULL == 512
PREG_NO_ERROR == 0
PREG_INTERNAL_ERROR == 1
PREG_BACKTRACK_LIMIT_ERROR == 2
PREG_RECURSION_LIMIT_ERROR == 3
PREG_BAD_UTF8_ERROR == 4
PREG_BAD_UTF8_OFFSET_ERROR == 5
PREG_JIT_STACKLIMIT_ERROR == 6
PREG_GREP_INVERT == 1

(***************************************************************************)
(* Bounds of the model                                                     *)
(***************************************************************************)
MaxLitLen == 3
MaxSubjLen == 3
MaxSplitLen == 3
MaxReplLen == 2
MaxTextLen == 2

(***************************************************************************)
(* Text helpers: the JavaScript string primitives the code uses            *)
(***************************************************************************)
Min(a, b) == IF a < b THEN a ELSE b
Max(a, b) == IF a > b THEN a ELSE b

\* F(v) with v evaluated once, as a JavaScript const binding is
Let(F(_), v) == CHOOSE r \in { F(x) : x \in { v } } : TRUE

\* s.slice(from, to) for 0 <= from, to (clamped to the length)
Slice(s, from, to) == SubSeq(s, Min(from, Len(s)) + 1, Min(to, Len(s)))

\* s.slice(from) including JavaScript's negative (from the end) positions
SliceFrom(s, from) ==
  IF from >= 0 THEN Slice(s, from, Len(s))
  ELSE Slice(s, Max(Len(s) + from, 0), Len(s))

\* s.indexOf(ch, 1): the first occurrence after the start, not the last
IndexAfterStart(s, ch) ==
  IF \E k \in 2..Len(s) : s[k] = ch
  THEN (CHOOSE k \in 2..Len(s) : s[k] = ch /\ \A j \in 2..(k-1) : s[j] # ch) - 1
  ELSE -1

\* s.lastIndexOf(ch): 0-based, -1 when absent
LastIndexOf(s, ch) ==
  IF \E k \in 1..Len(s) : s[k] = ch
  THEN (CHOOSE k \in 1..Len(s) : s[k] = ch /\ \A j \in (k+1)..Len(s) : s[j] # ch) - 1
  ELSE -1

\* whether t occurs in s at 0-based position p
OccursAt(s, t, p) == p >= 0 /\ p + Len(t) <= Len(s) /\ Slice(s, p, p + Len(t)) = t

\* s.indexOf(t, from): 0-based, -1 when absent
IndexOfFrom(s, t, from) ==
  LET f == Min(Max(from, 0), Len(s)) IN
  IF \E p \in f..Len(s) : OccursAt(s, t, p)
  THEN CHOOSE p \in f..Len(s) : OccursAt(s, t, p) /\ \A q \in f..(p-1) : ~OccursAt(s, t, q)
  ELSE -1

Contains(s, t) == \E p \in 0..Len(s) : OccursAt(s, t, p)

RECURSIVE Flatten(_)
Flatten(ss) == IF ss = <<>> THEN <<>> ELSE Head(ss) \o Flatten(Tail(ss))

\* all texts over alphabet A of length at most n
RECURSIVE TextsOfLen(_, _)
TextsOfLen(A, n) ==
  IF n = 0 THEN { <<>> }
  ELSE { Append(t, c) : t \in TextsOfLen(A, n - 1), c \in A }
TextsUpTo(A, n) == UNION { TextsOfLen(A, k) : k \in 0..n }

(***************************************************************************)
(* stripExtended (preg.js:41-77): the x-modifier preprocessor              *)
(***************************************************************************)
WhiteSpace == { " ", "\t", "\n", "\r", "\f" }

\* a comment skip that drops the "#" and leaves the rest of the line
SkipNothing(pattern, i) == i

\* index (1-based) of the first "\n" at or after i, or Len+1: the inner while
SkipToEol(pattern, i) ==
  IF \E k \in i..Len(pattern) : pattern[k] = "\n"
  THEN CHOOSE k \in i..Len(pattern) :
         pattern[k] = "\n" /\ \A j \in i..(k-1) : pattern[j] # "\n"
  ELSE Len(pattern) + 1

RECURSIVE stripFrom(_, _, _, _)
stripFrom(pattern, i, inClass, escaped) ==
  IF i > Len(pattern) THEN <<>>
  ELSE LET ch == pattern[i] IN
    IF escaped THEN <<ch>> \o stripFrom(pattern, i + 1, inClass, FALSE)
    ELSE IF ch = "\\" THEN <<ch>> \o stripFrom(pattern, i + 1, inClass, TRUE)
    ELSE IF ch = "[" /\ ~inClass THEN <<ch>> \o stripFrom(pattern, i + 1, TRUE, FALSE)
    ELSE IF ch = "]" /\ inClass THEN <<ch>> \o stripFrom(pattern, i + 1, FALSE, FALSE)
    ELSE IF ~inClass /\ ch = "#"
      THEN stripFrom(pattern, SkipToEol(pattern, i) + 1, inClass, FALSE)
    ELSE IF ~inClass /\ ch \in WhiteSpace
      THEN stripFrom(pattern, i + 1, inClass, FALSE)
    ELSE <<ch>> \o stripFrom(pattern, i + 1, inClass, FALSE)

stripExtended(pattern) == stripFrom(pattern, 1, FALSE, FALSE)

(***************************************************************************)
(* parsePattern (preg.js:79-110).  A thrown Error is the record            *)
(* [ok |-> FALSE, msg |-> ...]; a message is a sequence of its fragments.  *)
(***************************************************************************)
Thrown(msg) == [ok |-> FALSE, msg |-> msg]

NativeFlagMods == { "i", "m", "s", "u" }
NoOpMods == { "A", "U", "D", "S", "J" }
KnownMods == NativeFlagMods \cup { "x" } \cup NoOpMods

\* [...new Set(flags.split(""))].join(""): first occurrences, in order
\* a join that keeps every accumulated flag, repeated or not
DedupNone(fs) == fs

Dedup(fs) ==
  LET keep == { k \in 1..Len(fs) : \A j \in 1..(k-1) : fs[j] # fs[k] }
      F[k \in 0..Len(fs)] ==
        IF k = 0 THEN <<>>
        ELSE IF k \in keep THEN Append(F[k-1], fs[k]) ELSE F[k-1]
  IN F[Len(fs)]

\* the flags the modifier loop accumulates, starting from "g"
FlagsOfMods(mods) ==
  LET F[k \in 0..Len(mods)] ==
        IF k = 0 THEN <<"g">>
        ELSE IF mods[k] \in NativeFlagMods THEN Append(F[k-1], mods[k]) ELSE F[k-1]
  IN F[Len(mods)]

\* a loop that rejects "e" alone and skips every other unknown character
FirstBadModOnlyE(mods) ==
  IF \E k \in 1..Len(mods) : mods[k] = "e"
  THEN CHOOSE k \in 1..Len(mods) : mods[k] = "e" /\ \A j \in 1..(k-1) : mods[j] # "e"
  ELSE 0

\* the loop over mods throws at the first character that is no known modifier
FirstBadMod(mods) ==
  IF \E k \in 1..Len(mods) : mods[k] \notin KnownMods
  THEN CHOOSE k \in 1..Len(mods) :
         mods[k] \notin KnownMods /\ \A j \in 1..(k-1) : mods[j] \in KnownMods
  ELSE 0

parsePattern(pat) ==
  IF Len(pat) < 2 THEN Thrown(<<"Empty regex">>)
  ELSE
    LET delim == pat[1]
        last  == LastIndexOf(pat, delim)
        body  == Slice(pat, 1, last)
        mods  == Slice(pat, last + 1, Len(pat))
        bad   == FirstBadMod(mods)
        extended == \E k \in 1..Len(mods) : mods[k] = "x"
    IN IF last <= 0 THEN Thrown(<<"Invalid delimiter">>)
       ELSE IF bad # 0 THEN
         IF mods[bad] = "e"
         THEN Thrown(<<"Modifier 'e' is not supported for security reasons">>)
         ELSE Thrown(<<"Unsupported modifier '", mods[bad], "'">>)
       ELSE [ok |-> TRUE,
             source |-> IF extended THEN stripExtended(body) ELSE body,
             flags |-> Dedup(FlagsOfMods(mods)),
             modifiers |-> mods]

(***************************************************************************)
(* The native engine: new RegExp(source, flags) (preg.js:117, 191).        *)
(* A compiled pattern is its list of nodes; every node has the same        *)
(* fields: t the kind, c the character of a "char" node, g..h the capture  *)
(* groups a "group" node opens (itself and the nested ones), sub the nodes *)
(* of a group or the single node under a "star".                           *)
(***************************************************************************)
CharNode(c) == [t |-> "char", c |-> c, g |-> 0, h |-> 0, sub |-> <<>>]
AnyNode == [t |-> "any", c |-> "", g |-> 0, h |-> 0, sub |-> <<>>]
BolNode == [t |-> "bol", c |-> "", g |-> 0, h |-> 0, sub |-> <<>>]
GroupNode(g, h, sub) == [t |-> "group", c |-> "", g |-> g, h |-> h, sub |-> sub]
StarNode(n) == [t |-> "star", c |-> "", g |-> 0, h |-> 0, sub |-> <<n>>]

SyntaxError(what) == Thrown(<<"Invalid regular expression: ", what>>)

\* the SyntaxCharacter set of the engine's grammar
SyntaxChars == { "\\", "^", "$", ".", "*", "+", "?", "(", ")", "[", "]", "{", "}", "|" }

\* the letters a group name is made of in this dialect: one lower-case letter
NameLetters ==
  { "a", "b", "c", "d", "e", "f", "g", "h", "i", "j", "k", "l", "m",
    "n", "o", "p", "q", "r", "s", "t", "u", "v", "w", "x", "y", "z" }

\* the "(" at pos opens a named group: it is followed by ?<n>
NamedAt(src, pos) ==
  /\ pos + 4 <= Len(src)
  /\ src[pos + 1] = "?"
  /\ src[pos + 2] = "<"
  /\ src[pos + 3] \in NameLetters
  /\ src[pos + 4] = ">"

\* the names of the groups of src in the order they open, "" for a group
\* without a name
GroupNames(src) ==
  LET F[k \in 0..Len(src)] ==
        IF k = 0 THEN [esc |-> FALSE, names |-> <<>>]
        ELSE Let(LAMBDA q :
                   IF q.esc THEN [esc |-> FALSE, names |-> q.names]
                   ELSE IF src[k] = "\\" THEN [esc |-> TRUE, names |-> q.names]
                   ELSE IF src[k] = "("
                   THEN [esc |-> FALSE,
                         names |-> Append(q.names,
                                          IF NamedAt(src, k) THEN src[k + 3] ELSE "")]
                   ELSE q,
                 F[k-1])
  IN F[Len(src)].names

\* Parses terms from 1-based position pos up to a ")" or the end of src.
\* ng is the number of groups opened so far; u is unicode mode, in which an
\* escape of a non-syntax character is rejected.
RECURSIVE ParseTerms(_, _, _, _, _)
ParseTerms(src, pos, ng, acc, u) ==
  LET Quantified(node, next, ng2) ==
        IF next <= Len(src) /\ src[next] = "*"
        THEN ParseTerms(src, next + 1, ng2, Append(acc, StarNode(node)), u)
        ELSE ParseTerms(src, next, ng2, Append(acc, node), u)
  IN
  IF pos > Len(src) THEN [ok |-> TRUE, nodes |-> acc, pos |-> pos, ng |-> ng]
  ELSE LET ch == src[pos] IN
    IF ch = ")" THEN [ok |-> TRUE, nodes |-> acc, pos |-> pos, ng |-> ng]
    ELSE IF ch = "*" THEN SyntaxError("Nothing to repeat")
    ELSE IF ch = "^" THEN ParseTerms(src, pos + 1, ng, Append(acc, BolNode), u)
    ELSE IF ch = "\\" THEN
      IF pos = Len(src) THEN SyntaxError("\\ at end of pattern")
      ELSE IF u /\ src[pos + 1] \notin SyntaxChars THEN SyntaxError("Invalid escape")
      ELSE Quantified(CharNode(src[pos + 1]), pos + 2, ng)
    ELSE IF ch = "(" THEN
      Let(LAMBDA inner :
            IF ~inner.ok THEN inner
            ELSE IF inner.pos > Len(src) THEN SyntaxError("Unterminated group")
            ELSE Quantified(GroupNode(ng + 1, inner.ng, inner.nodes),
                            inner.pos + 1, inner.ng),
          ParseTerms(src, IF NamedAt(src, pos) THEN pos + 5 ELSE pos + 1,
                     ng + 1, <<>>, u))
    ELSE IF ch = "." THEN Quantified(AnyNode, pos + 1, ng)
    ELSE Quantified(CharNode(ch), pos + 1, ng)

\* new RegExp(source, flags): the compiled object, or the SyntaxError thrown
NewRegExp(source, flags) ==
  Let(LAMBDA r :
     IF ~r.ok THEN r
     ELSE IF r.pos <= Len(source) THEN SyntaxError("Unmatched ')'")
     ELSE Let(LAMBDA names :
                IF \E a, b \in 1..Len(names) :
                     a # b /\ names[a] # "" /\ names[a] = names[b]
                THEN SyntaxError("Duplicate capture group name")
                ELSE [ok |-> TRUE, nodes |-> r.nodes, ng |-> r.ng, flags |-> flags,
                      names |-> names],
              GroupNames(source)),
     ParseTerms(source, 1, 0, <<>>, \E k \in 1..Len(flags) : flags[k] = "u"))

HasFlag(re, f) == \E k \in 1..Len(re.flags) : re.flags[k] = f

(***************************************************************************)
(* Matching: the engine's backtracking search.  MatchNodes returns, in the *)
(* order the backtracking tries them, every way the nodes can match s from *)
(* position p; the engine takes the first.  caps[k] is capture group k:    *)
(* def = FALSE while the group has not participated.                       *)
(***************************************************************************)
NoCap == [def |-> FALSE, b |-> 0, e |-> 0]

LowerCase == << "a", "b", "c", "d", "e", "f", "g", "h", "i", "j", "k", "l", "m",
               "n", "o", "p", "q", "r", "s", "t", "u", "v", "w", "x", "y", "z" >>
UpperCase == << "A", "B", "C", "D", "E", "F", "G", "H", "I", "J", "K", "L", "M",
               "N", "O", "P", "Q", "R", "S", "T", "U", "V", "W", "X", "Y", "Z" >>
\* the engine's case folding (Canonicalize under the i flag)
UpperOf(c) ==
  IF \E k \in 1..26 : LowerCase[k] = c
  THEN UpperCase[CHOOSE k \in 1..26 : LowerCase[k] = c] ELSE c
Canon(c, ic) == IF ic THEN UpperOf(c) ELSE c

RECURSIVE MatchNodes(_, _, _, _, _), MatchNode(_, _, _, _, _)
MatchNode(n, s, p, caps, re) ==
  LET here == << [e |-> p, caps |-> caps] >>
      step == << [e |-> p + 1, caps |-> caps] >>
  IN
  CASE n.t = "char" ->
         IF p < Len(s) /\ Canon(s[p + 1], HasFlag(re, "i")) = Canon(n.c, HasFlag(re, "i"))
         THEN step ELSE <<>>
    [] n.t = "any" ->
         IF p < Len(s) /\ (s[p + 1] # "\n" \/ HasFlag(re, "s")) THEN step ELSE <<>>
    [] n.t = "bol" ->
         IF p = 0 \/ (HasFlag(re, "m") /\ s[p] = "\n") THEN here ELSE <<>>
    [] n.t = "group" ->
         Let(LAMBDA rs :
               [k \in 1..Len(rs) |->
                  [e |-> rs[k].e,
                   caps |-> [rs[k].caps EXCEPT
                               ![n.g] = [def |-> TRUE, b |-> p, e |-> rs[k].e]]]],
             MatchNodes(n.sub, s, p, caps, re))
    [] n.t = "star" ->
         \* greedy: one more iteration first (its captures reset, an empty
         \* iteration rejected), then no further iteration
         Let(LAMBDA one :
               Flatten([k \in 1..Len(one) |->
                          IF one[k].e > p
                          THEN MatchNode(n, s, one[k].e, one[k].caps, re)
                          ELSE <<>>]) \o here,
             MatchNode(n.sub[1], s, p,
                       [k \in 1..Len(caps) |->
                          IF n.sub[1].t = "group" /\ k >= n.sub[1].g /\ k <= n.sub[1].h
                          THEN NoCap ELSE caps[k]],
                       re))

MatchNodes(nodes, s, p, caps, re) ==
  IF nodes = <<>> THEN << [e |-> p, caps |-> caps] >>
  ELSE Let(LAMBDA first :
             Flatten([k \in 1..Len(first) |->
                        MatchNodes(Tail(nodes), s, first[k].e, first[k].caps, re)]),
           MatchNode(Head(nodes), s, p, caps, re))

\* the match starting exactly at p, if any (the engine's sticky attempt)
MatchAt(re, s, p) == MatchNodes(re.nodes, s, p, [k \in 1..re.ng |-> NoCap], re)

NoMatch == [found |-> FALSE, index |-> 0, end |-> 0, groups |-> <<>>, named |-> <<>>]

\* An exec result: index, end of the whole match, groups[k+1] = m[k] as
\* [undef, text], and named = Object.entries(m.groups): the named groups in
\* the order they open, each with its name, its number g and its value v
Undef == [undef |-> TRUE, text |-> <<>>]
Text(t) == [undef |-> FALSE, text |-> t]

ExecArray(re, s, p, r) ==
  LET group == [k \in 1..Len(r.caps) |->
                  IF r.caps[k].def THEN Text(Slice(s, r.caps[k].b, r.caps[k].e))
                  ELSE Undef]
      named == SelectSeq([k \in 1..Len(r.caps) |->
                            [name |-> re.names[k], g |-> k, v |-> group[k]]],
                         LAMBDA e : e.name # "")
  IN [found |-> TRUE, index |-> p, end |-> r.e,
      groups |-> << Text(Slice(s, p, r.e)) >> \o group,
      named |-> named]

\* re.exec(s) searching from lastIndex: the leftmost position with a match
RECURSIVE ExecFrom(_, _, _)
ExecFrom(re, s, lastIndex) ==
  IF lastIndex > Len(s) THEN NoMatch
  ELSE Let(LAMBDA rs : IF rs # <<>> THEN ExecArray(re, s, lastIndex, rs[1])
                       ELSE ExecFrom(re, s, lastIndex + 1),
           MatchAt(re, s, lastIndex))

(***************************************************************************)
(* compile (preg.js:112-122): the result carries the error state the call  *)
(* leaves behind (setPregError, preg.js:36-39).                            *)
(***************************************************************************)
NoErrorMsg == <<"PREG_NO_ERROR">>

setPregError(code, msg) == [code |-> code, msg |-> msg]

\* flags.replace("g", ""): drops the first "g"
DropG(flags) ==
  IF \E k \in 1..Len(flags) : flags[k] = "g"
  THEN LET k == CHOOSE i \in 1..Len(flags) :
                  flags[i] = "g" /\ \A j \in 1..(i-1) : flags[j] # "g"
       IN SubSeq(flags, 1, k - 1) \o SubSeq(flags, k + 1, Len(flags))
  ELSE flags

\* a compile that keeps the global flag for single-match callers
FlagsForKeepsG(flags, single) == flags

\* preg.js:115
FlagsFor(flags, single) == IF single THEN DropG(flags) ELSE flags

\* a compile that leaves the error state alone when it succeeds
ErrorOnSuccessKept(err) == err

\* preg.js:116: the state a compile that succeeds leaves, err being the
\* state before it
ErrorOnSuccess(err) == setPregError(PREG_NO_ERROR, NoErrorMsg)

\* a catch block that records the message and not the code
ErrorOnFailureNoCode(msg) == setPregError(PREG_NO_ERROR, msg)

\* preg.js:119: the state the catch block leaves
ErrorOnFailure(msg) == setPregError(PREG_INTERNAL_ERROR, msg)

\* err is the error state before the call; the result's err the state after
compile(pat, single, err) ==
  Let(LAMBDA parsed :
        IF ~parsed.ok
        THEN [re |-> parsed, null |-> TRUE, err |-> ErrorOnFailure(parsed.msg)]
        ELSE Let(LAMBDA re :
                   IF re.ok
                   THEN [re |-> re, null |-> FALSE, err |-> ErrorOnSuccess(err)]
                   ELSE [re |-> re, null |-> TRUE, err |-> ErrorOnFailure(re.msg)],
                 NewRegExp(parsed.source, FlagsFor(parsed.flags, single))),
      parsePattern(pat))

\* the single argument each exported function passes to compile
\* (preg.js:206, 242, 311, 348, 366)
SingleFor ==
  [match |-> TRUE, matchAll |-> FALSE, replace |-> FALSE, split |-> FALSE,
   grep |-> TRUE]

(***************************************************************************)
(* The engine's iteration primitives                                       *)
(***************************************************************************)
\* Successive exec calls of a global pattern from lastIndex, the search
\* position moved one past an empty match: the loop of preg_match_all
\* (preg.js:248-254) and the one inside String.prototype.replace.
\* a loop that leaves lastIndex where exec put it
LastIndexAsLeft(m) == m.end

\* re.lastIndex after exec found m and the loop body ran (preg.js:253):
\* if (m[0] === "") re.lastIndex++
LastIndexAfter(m) == IF m.end = m.index THEN m.end + 1 ELSE m.end

RECURSIVE ExecAll(_, _, _)
ExecAll(re, s, lastIndex) ==
  Let(LAMBDA m :
        IF ~m.found THEN <<>>
        ELSE << m >> \o ExecAll(re, s, LastIndexAfter(m)),
      ExecFrom(re, s, lastIndex))

\* String.prototype.replace(re, fn) for a global re: repl[k] is what fn
\* returned for the k-th match
RECURSIVE Splice(_, _, _, _, _)
Splice(s, ms, repl, k, next) ==
  IF k > Len(ms) THEN Slice(s, next, Len(s))
  ELSE Slice(s, next, ms[k].index) \o repl[k] \o Splice(s, ms, repl, k + 1, ms[k].end)

\* String.prototype.split(re): sticky attempts at q; an empty match at the
\* start of the current piece is skipped; captures are spliced in
RECURSIVE SplitLoop(_, _, _, _)
SplitLoop(re, s, p, q) ==
  IF q >= Len(s) THEN << Text(Slice(s, p, Len(s))) >>
  ELSE Let(LAMBDA z :
             IF z = <<>> \/ Min(z[1].e, Len(s)) = p THEN SplitLoop(re, s, p, q + 1)
             ELSE << Text(Slice(s, p, q)) >> \o Tail(ExecArray(re, s, q, z[1]).groups)
                    \o SplitLoop(re, s, Min(z[1].e, Len(s)), Min(z[1].e, Len(s))),
           MatchAt(re, s, q))

NativeSplit(s, re) ==
  IF Len(s) = 0 THEN (IF MatchAt(re, s, 0) # <<>> THEN <<>> ELSE << Text(s) >>)
  ELSE SplitLoop(re, s, 0, 0)

(***************************************************************************)
(* Result rows: withOffsets (preg.js:124-152), withValues (preg.js:154-160)*)
(* An entry is a plain value (pair = FALSE) or a (text, offset) pair; null *)
(* marks the null value.  The entry of key k is at index k + 1.            *)
(***************************************************************************)
Plain(v) == [pair |-> FALSE, null |-> FALSE, text |-> v, off |-> 0]
PlainNull == [pair |-> FALSE, null |-> TRUE, text |-> <<>>, off |-> 0]
Pair(v, off) == [pair |-> TRUE, null |-> FALSE, text |-> v, off |-> off]
PairNull(off) == [pair |-> TRUE, null |-> TRUE, text |-> <<>>, off |-> off]

\* a row builder that never stores null
ValueOfNeverNull(v, unmatchedAsNull) == Plain(v.text)

\* v ?? (unmatchedAsNull ? null : "")
ValueOf(v, unmatchedAsNull) ==
  IF ~v.undef THEN Plain(v.text)
  ELSE IF unmatchedAsNull THEN PlainNull ELSE Plain(<<>>)

\* A row is the entries under the numeric keys 0, 1, ... followed by the
\* entries under the names, in the order of Object.entries(match.groups)
withValues(match, unmatchedAsNull) ==
  [k \in 1..Len(match.groups) |-> ValueOf(match.groups[k], unmatchedAsNull)]
    \o [k \in 1..Len(match.named) |-> ValueOf(match.named[k].v, unmatchedAsNull)]

\* The loop of preg.js:130-140 over groups i..: cursor is the forward-only
\* search position inside the whole match
RECURSIVE offsetsFrom(_, _, _, _, _)
offsetsFrom(match, baseIndex, unmatchedAsNull, i, cursor) ==
  IF i > Len(match.groups) - 1 THEN <<>>
  ELSE IF match.groups[i + 1].undef
  THEN << IF unmatchedAsNull THEN PairNull(-1) ELSE Pair(<<>>, -1) >>
         \o offsetsFrom(match, baseIndex, unmatchedAsNull, i + 1, cursor)
  ELSE Let(LAMBDA pos :
             << Pair(match.groups[i + 1].text,
                     IF pos >= 0 THEN baseIndex + pos ELSE -1) >>
               \o offsetsFrom(match, baseIndex, unmatchedAsNull, i + 1,
                    IF pos >= 0 THEN pos + Len(match.groups[i + 1].text) ELSE cursor),
           IndexOfFrom(match.groups[1].text, match.groups[i + 1].text, cursor))

\* preg.js:142-150: the entry under a name, located with indexOf from the
\* start of the whole match
namedOffset(match, baseIndex, unmatchedAsNull, v) ==
  IF v.undef THEN (IF unmatchedAsNull THEN PairNull(-1) ELSE Pair(<<>>, -1))
  ELSE Let(LAMBDA pos : Pair(v.text, IF pos >= 0 THEN baseIndex + pos ELSE -1),
           IndexOfFrom(match.groups[1].text, v.text, 0))

withOffsets(match, baseIndex, unmatchedAsNull) ==
  << Pair(match.groups[1].text, baseIndex) >>
    \o offsetsFrom(match, baseIndex, unmatchedAsNull, 1, 0)
    \o [k \in 1..Len(match.named) |->
          namedOffset(match, baseIndex, unmatchedAsNull, match.named[k].v)]

\* (flags & bit) === bit for a single-bit constant
BitSet(flags, bit) == (flags \div bit) % 2 = 1

\* preg.js:213-215 and 249-251
BuildRow(m, flags, offset) ==
  IF BitSet(flags, PREG_OFFSET_CAPTURE)
  THEN withOffsets(m, m.index + offset, BitSet(flags, PREG_UNMATCHED_AS_NULL))
  ELSE withValues(m, BitSet(flags, PREG_UNMATCHED_AS_NULL))

(***************************************************************************)
(* Values returned to the caller, and the caller's output container        *)
(***************************************************************************)
RetFalse == [kind |-> "false", n |-> 0, items |-> <<>>]
RetInt(n) == [kind |-> "int", n |-> n, items |-> <<>>]
RetText(t) == [kind |-> "text", n |-> 0, items |-> t]
RetList(l) == [kind |-> "list", n |-> 0, items |-> l]
RetNone == [kind |-> "none", n |-> 0, items |-> <<>>]
\* the call ended in a TypeError thrown by an assert (assert.js:29-32)
RetThrown == [kind |-> "thrown", n |-> 0, items |-> <<>>]

\* An argument that is not a string (a number, say).  Texts hold single
\* characters, so this value is no text.
NotAString == << "number" >>

\* assertString (assert.js:62-64): whether it returns instead of throwing
assertString(v) == v # NotAString

\* the container after a call wrote a row into it (preg.js:217-226)
RowContainer(row) == [shape |-> "row", row |-> row, table |-> <<>>]
\* the container after preg_match_all wrote its output (preg.js:275-283):
\* table[k + 1] is the value under key k, a list of entries
TableContainer(order, table) == [shape |-> order, row |-> <<>>, table |-> table]
EmptyContainer == [shape |-> "empty", row |-> <<>>, table |-> <<>>]

\* a search that forgets the offset
SubjWhole(subject, offset) == subject

\* offset ? subject.slice(offset) : subject
Subj(subject, offset) == IF offset # 0 THEN SliceFrom(subject, offset) ELSE subject

(***************************************************************************)
(* preg_match (preg.js:198-228).  useOut: whether the caller supplied the  *)
(* container; matches: its contents before the call.                       *)
(***************************************************************************)
preg_match(pattern, subject, useOut, matches, flags, offset, err) ==
  IF ~(assertString(pattern) /\ assertString(subject))
  THEN [ret |-> RetThrown, err |-> err, matches |-> matches]
  ELSE
  Let(LAMBDA c :
        IF c.null THEN [ret |-> RetFalse, err |-> c.err, matches |-> matches]
        ELSE Let(LAMBDA m :
                   IF ~m.found
                   THEN [ret |-> RetInt(0), err |-> c.err, matches |-> matches]
                   ELSE [ret |-> RetInt(1), err |-> c.err,
                         matches |-> IF useOut
                                     THEN RowContainer(BuildRow(m, flags, offset))
                                     ELSE matches],
                 ExecFrom(c.re, Subj(subject, offset), 0)),
      compile(pattern, SingleFor.match, err))

(***************************************************************************)
(* preg_match_all (preg.js:234-285)                                        *)
(***************************************************************************)
\* a grouping that pushes an entry only if it is truthy, and so drops the
\* empty texts
PatternOrderSkipsEmpty(all) ==
  IF all = <<>> THEN << <<>> >>
  ELSE [k \in 1..Len(all[1]) |->
          SelectSeq([i \in 1..Len(all) |-> all[i][k]],
                    LAMBDA e : e.pair \/ e.text # <<>>)]

\* a grouping that creates a key only when a row carries it, and so leaves
\* an output without keys when there is no row
PatternOrderNoKeys(all) ==
  IF all = <<>> THEN <<>>
  ELSE [k \in 1..Len(all[1]) |-> [i \in 1..Len(all) |-> all[i][k]]]

\* pattern order (preg.js:263-272): the keys are those the rows carry
PatternOrder(all) ==
  IF all = <<>> THEN << <<>> >>
  ELSE [k \in 1..Len(all[1]) |-> [i \in 1..Len(all) |-> all[i][k]]]

\* preg.js:256
CountOf(all) == Len(all)

\* an arrangement that compares the flags with PREG_SET_ORDER instead of
\* testing the bit
ArrangeOnEqual(all, flags) ==
  IF flags = PREG_SET_ORDER
  THEN TableContainer("set", all)
  ELSE TableContainer("pattern", PatternOrder(all))

\* preg.js:258-273
Arrange(all, flags) ==
  IF BitSet(flags, PREG_SET_ORDER)
  THEN TableContainer("set", all)
  ELSE TableContainer("pattern", PatternOrder(all))

preg_match_all(pattern, subject, useOut, matches, flags, offset, err) ==
  IF ~(assertString(pattern) /\ assertString(subject))
  THEN [ret |-> RetThrown, err |-> err, matches |-> matches]
  ELSE
  Let(LAMBDA c :
        IF c.null THEN [ret |-> RetFalse, err |-> c.err, matches |-> matches]
        ELSE Let(LAMBDA ms :
                   Let(LAMBDA all :
                         [ret |-> RetInt(CountOf(all)), err |-> c.err,
                          matches |-> IF useOut THEN Arrange(all, flags) ELSE matches],
                       [i \in 1..Len(ms) |-> BuildRow(ms[i], flags, offset)]),
                 ExecAll(c.re, Subj(subject, offset), 0)),
      compile(pattern, SingleFor.matchAll, err))

(***************************************************************************)
(* preg_replace (preg.js:291-335).  pattern, replacement and subject are   *)
(* [list |-> whether an array was passed, items |-> its strings].          *)
(***************************************************************************)
One(x) == [list |-> FALSE, items |-> << x >>]
Many(xs) == [list |-> TRUE, items |-> xs]

\* a fallback that reuses the last replacement of the list
ReplacementForLast(replacements, i) ==
  IF i <= Len(replacements) THEN replacements[i]
  ELSE IF Len(replacements) >= 1 THEN replacements[Len(replacements)]
  ELSE <<>>

\* replacements[i] ?? replacements[0] ?? ""   (i is 1-based here)
ReplacementFor(replacements, i) ==
  IF i <= Len(replacements) THEN replacements[i]
  ELSE IF Len(replacements) >= 1 THEN replacements[1]
  ELSE <<>>

\* a callback that compares with > and so substitutes once more
SubstitutesOneMore(localCount, limit) == ~(limit >= 0 /\ localCount > limit)

\* the callback of preg.js:316-325 at its k-th invocation: whether it
\* substitutes, localCount being the substitutions made so far
Substitutes(localCount, limit) == ~(limit >= 0 /\ localCount >= limit)

\* out.replace(re, callback): the callback's results from match k on, and
\* the final localCount
RECURSIVE callbackFrom(_, _, _, _, _)
callbackFrom(ms, limit, r, k, localCount) ==
  IF k > Len(ms) THEN [repl |-> <<>>, localCount |-> localCount]
  ELSE IF Substitutes(localCount, limit)
  THEN Let(LAMBDA rest : [repl |-> << r >> \o rest.repl, localCount |-> rest.localCount],
           callbackFrom(ms, limit, r, k + 1, localCount + 1))
  ELSE Let(LAMBDA rest : [repl |-> << ms[k].groups[1].text >> \o rest.repl,
                          localCount |-> rest.localCount],
           callbackFrom(ms, limit, r, k + 1, localCount))

\* the for loop of replaceOne from pattern i on, with the running out and
\* total and the error state so far
RECURSIVE replaceFrom(_, _, _, _, _, _, _)
replaceFrom(patterns, replacements, limit, i, out, total, err) ==
  IF i > Len(patterns)
  THEN [thrown |-> FALSE, failed |-> FALSE, out |-> out, total |-> total,
        err |-> err]
  ELSE IF ~(assertString(patterns[i]) /\
            assertString(ReplacementFor(replacements, i)))
  THEN [thrown |-> TRUE, failed |-> FALSE, out |-> out, total |-> total,
        err |-> err]
  ELSE
    Let(LAMBDA c :
          IF c.null THEN [thrown |-> FALSE, failed |-> TRUE, out |-> out,
                          total |-> total, err |-> c.err]
          ELSE Let(LAMBDA ms :
                     Let(LAMBDA cb :
                           replaceFrom(patterns, replacements, limit, i + 1,
                                       Splice(out, ms, cb.repl, 1, 0),
                                       total + cb.localCount, c.err),
                         callbackFrom(ms, limit, ReplacementFor(replacements, i), 1, 0)),
                   ExecAll(c.re, out, 0)),
        compile(patterns[i], SingleFor.replace, err))

replaceOne(patterns, replacements, limit, subj, total, err) ==
  replaceFrom(patterns, replacements, limit, 1, subj, total, err)

\* subject.map(replaceOne): results of the subjects from index j on
RECURSIVE replaceMap(_, _, _, _, _, _, _)
replaceMap(patterns, replacements, limit, subjects, j, total, err) ==
  IF j > Len(subjects)
  THEN [thrown |-> FALSE, results |-> <<>>, total |-> total, err |-> err]
  ELSE
    Let(LAMBDA one :
          IF one.thrown
          THEN [thrown |-> TRUE, results |-> <<>>, total |-> one.total,
                err |-> one.err]
          ELSE
          Let(LAMBDA rest :
                [thrown |-> rest.thrown,
                 results |-> << IF one.failed THEN RetFalse ELSE RetText(one.out) >>
                               \o rest.results,
                 total |-> rest.total, err |-> rest.err],
              replaceMap(patterns, replacements, limit, subjects, j + 1,
                         one.total, one.err)),
        replaceOne(patterns, replacements, limit, subjects[j], total, err))

\* preg.js:332: what is returned for the per-subject results
ResultOf(subject, results) ==
  IF subject.list THEN RetList(results) ELSE results[1]

\* a counter that is added to instead of overwritten
WriteCountAdds(countObj, total) ==
  [set |-> TRUE, count |-> countObj.count + total]

\* preg.js:333: countObj.count = total
WriteCount(countObj, total) == [set |-> TRUE, count |-> total]

\* preg.js:293-295: an argument is an array or a string
ArrayOrString(arg) == arg.list \/ assertString(arg.items[1])

preg_replace(pattern, replacement, subject, limit, useCount, countObj, err) ==
  IF ~(ArrayOrString(pattern) /\ ArrayOrString(replacement) /\
       ArrayOrString(subject))
  THEN [ret |-> RetThrown, err |-> err, countObj |-> countObj]
  ELSE
  Let(LAMBDA all :
        IF all.thrown
        THEN [ret |-> RetThrown, err |-> all.err, countObj |-> countObj]
        ELSE
        [ret |-> ResultOf(subject, all.results),
         err |-> all.err,
         countObj |-> IF useCount THEN WriteCount(countObj, all.total)
                      ELSE countObj],
      replaceMap(pattern.items, replacement.items, limit, subject.items, 1, 0, err))

(***************************************************************************)
(* preg_split (preg.js:341-354)                                            *)
(***************************************************************************)
\* preg.js:352-353
LimitPieces(pieces, limit) ==
  IF limit > 0 THEN Slice(pieces, 0, limit) ELSE pieces

preg_split(pattern, subject, limit, flags, err) ==
  IF ~(assertString(pattern) /\ assertString(subject))
  THEN [ret |-> RetThrown, err |-> err]
  ELSE
  Let(LAMBDA c :
        IF c.null THEN [ret |-> RetFalse, err |-> c.err]
        ELSE [ret |-> RetList(LimitPieces(NativeSplit(subject, c.re), limit)),
              err |-> c.err],
      compile(pattern, SingleFor.split, err))

(***************************************************************************)
(* preg_grep (preg.js:360-376)                                             *)
(***************************************************************************)
\* preg.js:373
Keeps(ok, invert) == (ok /\ ~invert) \/ (~ok /\ invert)

\* An input entry: a string, or a number with its value
Str(t) == [type |-> "string", num |-> 0, text |-> t]
Num(n) == [type |-> "number", num |-> n, text |-> <<>>]

Digit(d) == << "0", "1", "2", "3", "4", "5", "6", "7", "8", "9" >>[d + 1]

\* String(n) for a non-negative integer
RECURSIVE Decimal(_)
Decimal(n) ==
  IF n < 10 THEN << Digit(n) >> ELSE Append(Decimal(n \div 10), Digit(n % 10))

\* String(v)
StringOf(v) == IF v.type = "number" THEN Decimal(v.num) ELSE v.text

\* re.test(s) with re.lastIndex as given: a global pattern searches from
\* lastIndex and leaves the end of its match there; the result and the
\* lastIndex after the call
RegExpTest(re, s, lastIndex) ==
  Let(LAMBDA m : [ok |-> m.found,
                  lastIndex |-> IF HasFlag(re, "g") /\ m.found THEN m.end ELSE 0],
      ExecFrom(re, s, IF HasFlag(re, "g") THEN lastIndex ELSE 0))

\* the loop of preg.js:371-374 from entry k on
RECURSIVE grepFrom(_, _, _, _, _)
grepFrom(re, input, invert, k, lastIndex) ==
  IF k > Len(input) THEN <<>>
  ELSE Let(LAMBDA t :
             (IF Keeps(t.ok, invert) THEN << input[k] >> ELSE <<>>)
               \o grepFrom(re, input, invert, k + 1, t.lastIndex),
           RegExpTest(re, StringOf(input[k]), lastIndex))

preg_grep(pattern, input, flags, err) ==
  IF ~assertString(pattern) THEN [ret |-> RetThrown, err |-> err]
  ELSE
  Let(LAMBDA c :
        IF c.null THEN [ret |-> RetFalse, err |-> c.err]
        ELSE [ret |-> RetList(grepFrom(c.re, input,
                                       BitSet(flags, PREG_GREP_INVERT), 1, 0)),
              err |-> c.err],
      compile(pattern, SingleFor.grep, err))

(***************************************************************************)
(* preg_quote (preg.js:186-192).  delimiter: [given, text]; a delimiter    *)
(* that is not given is null.                                              *)
(***************************************************************************)
\* s.replace(/[\\^$.*+?()[\]{}|]/g, "\\$&")
EscapeMeta(s) ==
  Flatten([k \in 1..Len(s) |->
             IF s[k] \in SyntaxChars THEN << "\\", s[k] >> ELSE << s[k] >>])

NoDelimiter == [given |-> FALSE, text |-> <<>>]
Delimiter(d) == [given |-> TRUE, text |-> d]

\* preg.js:190: delimiter ? escaped delimiter : ""
DelSource(delimiter) ==
  IF delimiter.given /\ delimiter.text # <<>>
  THEN EscapeMeta(delimiter.text) ELSE <<>>

\* once.replace(new RegExp(del, "g"), "\\$&")
EscapeDel(once, del) ==
  Let(LAMBDA ms :
        Splice(once, ms,
               [k \in 1..Len(ms) |-> << "\\" >> \o ms[k].groups[1].text], 1, 0),
      ExecAll(NewRegExp(del, << "g" >>), once, 0))

preg_quote(str, delimiter) == EscapeDel(EscapeMeta(str), DelSource(delimiter))

(***************************************************************************)
(* State.  The module-level error state of preg.js:33-34 is the only state *)
(* the program keeps between calls.  call, ret, matches and countObj are   *)
(* the call in flight: its arguments, the value it returned, and the       *)
(* caller's output container and counter object as the call left them.     *)
(***************************************************************************)
VARIABLES pregLastError, pregLastErrorMsg, pc, call, ret, matches, countObj

vars == << pregLastError, pregLastErrorMsg, pc, call, ret, matches, countObj >>

ErrState == [code |-> pregLastError, msg |-> pregLastErrorMsg]

NoCount == [set |-> FALSE, count |-> 0]

NoCall ==
  [op |-> "none", pattern |-> <<>>, subject |-> <<>>, flags |-> 0, offset |-> 0,
   limit |-> 0, useOut |-> FALSE, patterns |-> Many(<<>>),
   replacement |-> Many(<<>>), subjects |-> Many(<<>>), input |-> <<>>,
   text |-> <<>>, delimiter |-> NoDelimiter, quoted |-> FALSE,
   countBefore |-> NoCount, caller |-> "", outBefore |-> EmptyContainer,
   errBefore |-> [code |-> PREG_NO_ERROR, msg |-> NoErrorMsg]]

Init ==
  /\ pregLastError = PREG_NO_ERROR
  /\ pregLastErrorMsg = NoErrorMsg
  /\ pc = "idle"
  /\ call = NoCall
  /\ ret = RetNone
  /\ matches = EmptyContainer
  /\ countObj = NoCount

\* a call returns: its arguments c, result r, the error state e it leaves
Finish(c, r, e, m, co) ==
  /\ pc' = "returned"
  /\ call' = [c EXCEPT !.errBefore = ErrState]
  /\ ret' = r
  /\ pregLastError' = e.code
  /\ pregLastErrorMsg' = e.msg
  /\ matches' = m
  /\ countObj' = co

\* the caller takes the result; its container and counter go out of scope
Return ==
  /\ pc = "returned"
  /\ pc' = "idle"
  /\ call' = NoCall
  /\ ret' = RetNone
  /\ matches' = EmptyContainer
  /\ countObj' = NoCount
  /\ UNCHANGED << pregLastError, pregLastErrorMsg >>

(***************************************************************************)
(* One action per exported function, its arguments drawn from the given    *)
(* sets.                                                                   *)
(***************************************************************************)
Match(P, S, F, O, U) ==
  /\ pc = "idle"
  /\ \E p \in P, s \in S, f \in F, o \in O, u \in U :
       \E r \in { preg_match(p, s, u, EmptyContainer, f, o, ErrState) } :
       Finish([NoCall EXCEPT !.op = "match", !.pattern = p, !.subject = s,
                             !.flags = f, !.offset = o, !.useOut = u],
              r.ret, r.err, r.matches, NoCount)

MatchAll(P, S, F, O, U) ==
  /\ pc = "idle"
  /\ \E p \in P, s \in S, f \in F, o \in O, u \in U :
       \E r \in { preg_match_all(p, s, u, EmptyContainer, f, o, ErrState) } :
       Finish([NoCall EXCEPT !.op = "matchAll", !.pattern = p, !.subject = s,
                             !.flags = f, !.offset = o, !.useOut = u],
              r.ret, r.err, r.matches, NoCount)

\* the counter argument: none, or an object with the contents it has
NoCountArg == [given |-> FALSE, obj |-> NoCount]
CountArg(obj) == [given |-> TRUE, obj |-> obj]

(***************************************************************************)
(* preg_match_all one iteration at a time.  While the loop of              *)
(* preg.js:245-254 runs, pc is "looping" and ret holds the locals of the   *)
(* call: n is re.lastIndex and items the occurrences pushed so far, each   *)
(* with the index exec found it at.                                        *)
(***************************************************************************)
Running(lastIndex, all) == [kind |-> "running", n |-> lastIndex, items |-> all]

\* preg.js:235-244: the call up to the first test of the loop condition
LoopEnter(P, S, F, O, U) ==
  /\ pc = "idle"
  /\ \E p \in P, s \in S, f \in F, o \in O, u \in U :
       \E c \in { compile(p, SingleFor.matchAll, ErrState) } :
         IF c.null
         THEN Finish([NoCall EXCEPT !.op = "matchAll", !.pattern = p, !.subject = s,
                                    !.flags = f, !.offset = o, !.useOut = u],
                     RetFalse, c.err, EmptyContainer, NoCount)
         ELSE /\ pc' = "looping"
              /\ call' = [NoCall EXCEPT !.op = "matchAll", !.pattern = p,
                                        !.subject = s, !.flags = f, !.offset = o,
                                        !.useOut = u, !.errBefore = ErrState]
              /\ ret' = Running(0, <<>>)
              /\ pregLastError' = c.err.code
              /\ pregLastErrorMsg' = c.err.msg
              /\ matches' = EmptyContainer
              /\ countObj' = NoCount

\* preg.js:245-254: exec found an occurrence and the body pushes its row
LoopIterate(RowCap) ==
  /\ pc = "looping"
  /\ Len(ret.items) < RowCap
  /\ \E m \in { ExecFrom(compile(call.pattern, SingleFor.matchAll, ErrState).re,
                          Subj(call.subject, call.offset), ret.n) } :
       /\ m.found
       /\ ret' = Running(LastIndexAfter(m),
                         Append(ret.items,
                                [index |-> m.index,
                                 row |-> BuildRow(m, call.flags, call.offset)]))
  /\ UNCHANGED << pregLastError, pregLastErrorMsg, pc, call, matches, countObj >>

\* preg.js:245, 256-284: exec returned null; the output is arranged and the
\* count returned
LoopExit ==
  /\ pc = "looping"
  /\ \E m \in { ExecFrom(compile(call.pattern, SingleFor.matchAll, ErrState).re,
                          Subj(call.subject, call.offset), ret.n) } :
       /\ ~m.found
       /\ \E all \in { [i \in 1..Len(ret.items) |-> ret.items[i].row] } :
            /\ ret' = RetInt(CountOf(all))
            /\ matches' = IF call.useOut THEN Arrange(all, call.flags) ELSE matches
  /\ pc' = "returned"
  /\ UNCHANGED << pregLastError, pregLastErrorMsg, call, countObj >>

Replace(P, R, S, L, C) ==
  /\ pc = "idle"
  /\ \E p \in P, r \in R, s \in S, l \in L, c \in C :
       \E x \in { preg_replace(p, r, s, l, c.given, c.obj, ErrState) } :
       Finish([NoCall EXCEPT !.op = "replace", !.patterns = p, !.replacement = r,
                             !.subjects = s, !.limit = l, !.useOut = c.given,
                             !.countBefore = c.obj],
              x.ret, x.err, EmptyContainer, x.countObj)

Split(P, S, L) ==
  /\ pc = "idle"
  /\ \E p \in P, s \in S, l \in L :
       \E r \in { preg_split(p, s, l, 0, ErrState) } :
       Finish([NoCall EXCEPT !.op = "split", !.pattern = p, !.subject = s,
                             !.limit = l],
              r.ret, r.err, EmptyContainer, NoCount)

Grep(P, I, F) ==
  /\ pc = "idle"
  /\ \E p \in P, i \in I, f \in F :
       \E r \in { preg_grep(p, i, f, ErrState) } :
       Finish([NoCall EXCEPT !.op = "grep", !.pattern = p, !.input = i,
                             !.flags = f],
              r.ret, r.err, EmptyContainer, NoCount)

Quote(T, D) ==
  /\ pc = "idle"
  /\ \E t \in T, d \in D :
       Finish([NoCall EXCEPT !.op = "quote", !.text = t, !.delimiter = d],
              RetText(preg_quote(t, d)), ErrState, EmptyContainer, NoCount)

\* a reader that clears the error state once it has been read
preg_last_error_clears(err) ==
  [ret |-> RetInt(err.code), err |-> setPregError(PREG_NO_ERROR, NoErrorMsg)]

\* preg_last_error (preg.js:167-170), err being the error state
preg_last_error(err) == [ret |-> RetInt(err.code), err |-> err]

\* preg_last_error_msg (preg.js:177-180)
preg_last_error_msg(err) == [ret |-> RetText(err.msg), err |-> err]

LastError ==
  /\ pc = "idle"
  /\ \E r \in { preg_last_error(ErrState) } :
       Finish([NoCall EXCEPT !.op = "lastError"], r.ret, r.err,
              EmptyContainer, NoCount)

LastErrorMsg ==
  /\ pc = "idle"
  /\ \E r \in { preg_last_error_msg(ErrState) } :
       Finish([NoCall EXCEPT !.op = "lastErrorMsg"], r.ret, r.err,
              EmptyContainer, NoCount)

\* the caller frames the text preg_quote just returned with delimiter d and
\* matches subject s against that literal
MatchQuoted(Dl, S) ==
  /\ pc = "returned"
  /\ call.op = "quote"
  /\ \E d \in Dl, s \in S :
       \E p \in { << d >> \o ret.items \o << d >> } :
       \E r \in { preg_match(p, s, TRUE, EmptyContainer, 0, 0, ErrState) } :
          Finish([NoCall EXCEPT !.op = "match", !.pattern = p, !.subject = s,
                                !.useOut = TRUE, !.text = call.text,
                                !.delimiter = call.delimiter, !.quoted = TRUE],
                 r.ret, r.err, r.matches, NoCount)

(***************************************************************************)
(* Spec: every function, on every literal of at most MaxLitLen characters  *)
(***************************************************************************)
LitAlphabet == { "/", "a", "e", "i", "(" }
Literals == TextsUpTo(LitAlphabet, MaxLitLen)
FewSubjects == { << "a" >>, << "i", "a" >> }
FewInputs == { << Str(<< "a" >>), Str(<< "i" >>) >> }
FewSubjectArgs == { One(<< "a" >>), Many(<< << "a" >>, << "i" >> >>), Many(<<>>) }
FewTexts == { << "a" >>, << "(", "/" >> }

Next ==
  \/ Match(Literals, FewSubjects, {0}, {0}, {FALSE})
  \/ MatchAll(Literals, FewSubjects, {PREG_PATTERN_ORDER}, {0}, {FALSE})
  \/ Replace({ One(p) : p \in Literals }, { One(<< "i" >>) }, FewSubjectArgs,
             {-1}, { CountArg(NoCount) })
  \/ Split(Literals, FewSubjects, {-1})
  \/ Grep(Literals, FewInputs, {0})
  \/ Quote(FewTexts, { NoDelimiter, Delimiter(<< "/" >>) })
  \/ LastError
  \/ LastErrorMsg
  \/ Return

Spec == Init /\ [][Next]_vars

(***************************************************************************)
(* SpecMatch: preg_match and preg_match_all on patterns with modifiers,    *)
(* groups and empty matches, every flag combination, with search offsets   *)
(***************************************************************************)
HelloWorld == << "H", "e", "l", "l", "o", " ", "w", "o", "r", "l", "d" >>
HelloI == << "/", "h", "e", "l", "l", "o", "/", "i" >>

MatchPatterns ==
  { << "/", "a", "/" >>, << "/", "a", "/", "i" >>,
    << "/", "(", "a", ")", "(", ",", ")", "/" >>,
    << "/", "a", "*", "/" >>, << "/", "(", "a", ")", "*", ",", "/" >>,
    << "/", "(", "/" >>, << "/", "a", "/", "e" >>, HelloI }
MatchSubjects == TextsUpTo({ "a", "A", "," }, MaxSubjLen) \cup { HelloWorld }
MatchFlags ==
  { 0, PREG_OFFSET_CAPTURE, PREG_UNMATCHED_AS_NULL,
    PREG_OFFSET_CAPTURE + PREG_UNMATCHED_AS_NULL }
MatchAllFlags ==
  { PREG_PATTERN_ORDER, PREG_SET_ORDER, 0,
    PREG_PATTERN_ORDER + PREG_OFFSET_CAPTURE,
    PREG_SET_ORDER + PREG_OFFSET_CAPTURE + PREG_UNMATCHED_AS_NULL }
Offsets == { 0, 1, 2 }

NextMatch ==
  \/ Match(MatchPatterns, MatchSubjects, MatchFlags, Offsets, BOOLEAN)
  \/ MatchAll(MatchPatterns, MatchSubjects, MatchAllFlags, Offsets, BOOLEAN)
  \/ Return

SpecMatch == Init /\ [][NextMatch]_vars

(***************************************************************************)
(* SpecReplace: preg_replace with pattern lists, replacement lists,        *)
(* subject lists and limits                                                *)
(***************************************************************************)
Banana == << "b", "a", "n", "a", "n", "a" >>
SlashA == << "/", "a", "/" >>

ReplPatterns ==
  { SlashA, << "/", "n", "/" >>, << "/", "a", "*", "/" >>,
    << "/", "(", "/" >>, << "/", "a", "/", "e" >> }
ReplPatternArgs ==
  { One(p) : p \in ReplPatterns } \cup
  { Many(<< p, q >>) : p \in ReplPatterns, q \in ReplPatterns }
ReplReplacementArgs == { One(<< "b" >>), Many(<< << "n" >>, <<>> >>) }
ReplSubjects == TextsUpTo({ "a", "n" }, MaxReplLen) \cup { Banana }
ReplSubjectArgs ==
  { One(t) : t \in ReplSubjects } \cup
  { Many(<< << "a" >>, << "n", "a", "a" >> >>), Many(<<>>) }
ReplLimits == { -1, 0, 1, 2 }
\* no counter, a fresh one, and one that an earlier call left at 7
ReplCountArgs ==
  { NoCountArg, CountArg(NoCount), CountArg([set |-> TRUE, count |-> 7]) }

NextReplace ==
  \/ Replace(ReplPatternArgs, ReplReplacementArgs, ReplSubjectArgs, ReplLimits,
             ReplCountArgs)
  \/ Return

SpecReplace == Init /\ [][NextReplace]_vars

(***************************************************************************)
(* SpecSplit: preg_split with and without capture groups, empty matches    *)
(* and limits                                                              *)
(***************************************************************************)
CommaList == << "a", ",", "b", ",", ",", "c" >>
SlashComma == << "/", ",", "/" >>

SplitPatterns ==
  { SlashComma, << "/", "(", ",", ")", "/" >>, << "/", "a", "*", "/" >>,
    << "/", ",", "a", "/" >>, << "/", "(", "/" >> }
SplitSubjects == TextsUpTo({ "a", "," }, MaxSplitLen) \cup { CommaList }
SplitLimits == { -1, 0, 1, 2, 3 }

NextSplit ==
  \/ Split(SplitPatterns, SplitSubjects, SplitLimits)
  \/ Return

SpecSplit == Init /\ [][NextSplit]_vars

(***************************************************************************)
(* SpecQuote: preg_quote, and preg_match on the literal made of its result *)
(***************************************************************************)
QuoteAlphabet == { "a", ".", "/" }
QuoteTexts == TextsUpTo(QuoteAlphabet, MaxTextLen)
QuoteDelimiters == { NoDelimiter, Delimiter(<< "/" >>), Delimiter(<< "." >>) }
FrameDelimiters == { "/", "#" }

NextQuote ==
  \/ Quote(QuoteTexts, QuoteDelimiters)
  \/ MatchQuoted(FrameDelimiters, QuoteTexts)
  \/ Return

SpecQuote == Init /\ [][NextQuote]_vars

(***************************************************************************)
(* What the properties below speak of                                      *)
(***************************************************************************)
\* a literal has an opening delimiter and a closing one after it
WellDelimited(lit) == Len(lit) >= 2 /\ \E k \in 2..Len(lit) : lit[k] = lit[1]

\* the characters after the closing delimiter
ModifierSuffix(lit) == Slice(lit, LastIndexOf(lit, lit[1]) + 1, Len(lit))

HasModifierE(lit) ==
  WellDelimited(lit) /\
  \E k \in 1..Len(ModifierSuffix(lit)) : ModifierSuffix(lit)[k] = "e"

WellFormed(lit) ==
  WellDelimited(lit) /\
  \A k \in 1..Len(ModifierSuffix(lit)) : ModifierSuffix(lit)[k] \in KnownMods

\* what the native engine says of the body of a well-formed literal
NativeOutcome(lit, single) ==
  Let(LAMBDA p : NewRegExp(p.source, FlagsFor(p.flags, single)), parsePattern(lit))

FailsToCompile(lit, single) ==
  ~WellFormed(lit) \/ ~NativeOutcome(lit, single).ok

\* the functions that compile one literal, and those that compile it
\* without the global flag
OneLiteralOps == { "match", "matchAll", "split", "grep" }
IsSingle(op) == op \in { "match", "grep" }

\* C1: matchOne, matchAll, split and grep return a value of their documented
\* kind for every literal (no exception escapes); the value is false exactly
\* when the literal fails to compile, and right after the call the error code
\* is INTERNAL_ERROR if false was returned and NO_ERROR otherwise.
C1_FalseExactlyOnCompileFailure ==
  (pc = "returned" /\ call.op \in OneLiteralOps) =>
    /\ ret.kind \in (IF call.op \in { "match", "matchAll" }
                     THEN { "false", "int" } ELSE { "false", "list" })
    /\ (ret.kind = "false") <=> FailsToCompile(call.pattern, IsSingle(call.op))
    /\ pregLastError = (IF ret.kind = "false" THEN PREG_INTERNAL_ERROR
                        ELSE PREG_NO_ERROR)

\* grep returned false for a literal whose body the engine rejects, the
\* error code going from NO_ERROR to INTERNAL_ERROR
C1_Witness ==
  /\ pc = "returned"
  /\ call.op = "grep"
  /\ call.pattern = << "/", "(", "/" >>
  /\ call.errBefore.code = PREG_NO_ERROR
  /\ ret.kind = "false"
  /\ pregLastError = PREG_INTERNAL_ERROR

\* the literal of the most recent compile attempt of a call, as a list of
\* one literal; empty when the call attempts none.  replace compiles its
\* patterns in order for every subject and stops a subject at the first
\* pattern that fails.
LastCompiled(c) ==
  IF c.op \in OneLiteralOps THEN << c.pattern >>
  ELSE IF c.op = "replace" /\ Len(c.subjects.items) > 0 /\ Len(c.patterns.items) > 0
  THEN LET ps == c.patterns.items
           bad == { i \in 1..Len(ps) : FailsToCompile(ps[i], FALSE) }
       IN IF bad = {} THEN << ps[Len(ps)] >>
          ELSE << ps[CHOOSE i \in bad : \A j \in bad : i <= j] >>
  ELSE <<>>

\* the error state one compile attempt of lit leaves, whatever came before
OutcomeOf(lit, single) ==
  Let(LAMBDA p :
        IF ~p.ok THEN [code |-> PREG_INTERNAL_ERROR, msg |-> p.msg]
        ELSE Let(LAMBDA re :
                   IF ~re.ok THEN [code |-> PREG_INTERNAL_ERROR, msg |-> re.msg]
                   ELSE [code |-> PREG_NO_ERROR, msg |-> NoErrorMsg],
                 NewRegExp(p.source, FlagsFor(p.flags, single))),
      parsePattern(lit))

\* C2: after every call the error state is the outcome of the most recent
\* compile attempt alone (NO_ERROR with message "PREG_NO_ERROR" after a
\* success, INTERNAL_ERROR with that failure's message after a failure),
\* whatever the state was before; a call that compiles nothing leaves it.
C2_ErrorStateIsLastCompile ==
  pc = "returned" =>
    \A last \in { LastCompiled(call) } :
      ErrState = (IF last = <<>> THEN call.errBefore
                  ELSE OutcomeOf(last[1], IsSingle(call.op)))

\* a successful compile right after a failed one reset the state
C2_Witness ==
  /\ pc = "returned"
  /\ call.op = "split"
  /\ call.errBefore.code = PREG_INTERNAL_ERROR
  /\ pregLastError = PREG_NO_ERROR
  /\ pregLastErrorMsg = NoErrorMsg

\* the literals a call hands to the compiler
LiteralsOf(c) ==
  IF c.op \in OneLiteralOps THEN { c.pattern }
  ELSE IF c.op = "replace"
  THEN { c.patterns.items[i] : i \in 1..Len(c.patterns.items) }
  ELSE {}

\* C3: a call given a literal whose modifier suffix contains "e" returns
\* false (replace: its false sentinel) and leaves the error state at
\* INTERNAL_ERROR.
C3_ModifierERejected ==
  (pc = "returned" /\ \E lit \in LiteralsOf(call) : HasModifierE(lit)) =>
    /\ ret.kind = "false"
    /\ pregLastError = PREG_INTERNAL_ERROR

\* C4: a replace call in which some pattern of the pattern list fails to
\* compile returns the false sentinel, for a single subject and for a list
\* of subjects alike.
C4_ReplaceFailsAsAWhole ==
  (pc = "returned" /\ call.op = "replace" /\
   \E lit \in LiteralsOf(call) : FailsToCompile(lit, FALSE)) =>
    ret.kind = "false"

\* text with the first n occurrences of re replaced by r, the leftmost
\* first, and every later occurrence left as it is; n < 0 stands for all
FirstReplaced(text, re, r, n) ==
  Let(LAMBDA ms :
        Splice(text, ms,
               [k \in 1..Len(ms) |->
                  IF n < 0 \/ k <= n THEN r ELSE ms[k].groups[1].text], 1, 0),
      ExecAll(re, text, 0))

\* the patterns from the i-th on applied in order, each with the whole
\* budget of limit occurrences
RECURSIVE LimitedFrom(_, _, _, _, _)
LimitedFrom(text, patterns, replacements, limit, i) ==
  IF i > Len(patterns) THEN text
  ELSE LimitedFrom(FirstReplaced(text, NativeOutcome(patterns[i], FALSE),
                                 ReplacementFor(replacements, i), limit),
                   patterns, replacements, limit, i + 1)

BananaCall(c) ==
  /\ c.op = "replace"
  /\ c.patterns = One(SlashA)
  /\ c.replacement = One(<< "b" >>)
  /\ c.subjects = One(Banana)
  /\ c.limit = 2

\* C5: when every pattern compiles, replace with limit N >= 0 substitutes in
\* each subject the leftmost N occurrences (or all, if fewer) of each pattern
\* in turn and leaves the later ones unchanged, each pattern and each subject
\* having the whole budget; limit -1 substitutes every occurrence;
\* replace("/a/", "b", "banana", 2) is "bbnbna".
C5_LimitPerPatternPerSubject ==
  (pc = "returned" /\ call.op = "replace" /\ call.limit >= -1 /\
   \A lit \in LiteralsOf(call) : ~FailsToCompile(lit, FALSE)) =>
    \A want \in { [j \in 1..Len(call.subjects.items) |->
                     RetText(LimitedFrom(call.subjects.items[j],
                                         call.patterns.items,
                                         call.replacement.items, call.limit, 1))] } :
      /\ ret = (IF call.subjects.list THEN RetList(want) ELSE want[1])
      /\ BananaCall(call) => ret = RetText(<< "b", "b", "n", "b", "n", "a" >>)

\* the example: two of the three occurrences substituted, the third left
C5_Witness ==
  /\ pc = "returned"
  /\ BananaCall(call)
  /\ ret = RetText(<< "b", "b", "n", "b", "n", "a" >>)

\* the pieces of text between the matches ms, from the k-th piece on
PieceStart(ms, k) == IF k = 1 THEN 0 ELSE ms[k - 1].end
PieceBetween(text, ms, k) ==
  Slice(text, PieceStart(ms, k), IF k > Len(ms) THEN Len(text) ELSE ms[k].index)

\* the first n pieces, the n-th being all that is left of the text
PiecesWithRemainder(text, ms, n) ==
  [k \in 1..Min(n, Len(ms) + 1) |->
     Text(IF k = n THEN Slice(text, PieceStart(ms, k), Len(text))
          ELSE PieceBetween(text, ms, k))]

NoEmptyMatch(ms) == \A k \in 1..Len(ms) : ms[k].end > ms[k].index

\* C6: for a pattern without groups and without empty matches, split with
\* limit N > 0 returns at most N pieces of which the last kept one is the
\* whole unsplit remainder of the subject; with limit <= 0 it splits at
\* every match.
C6_LastPieceIsRemainder ==
  (pc = "returned" /\ call.op = "split" /\ ret.kind = "list") =>
    \A re \in { NativeOutcome(call.pattern, FALSE) } :
    \A ms \in { ExecAll(re, call.subject, 0) } :
      (re.ng = 0 /\ NoEmptyMatch(ms)) =>
        ret.items = PiecesWithRemainder(call.subject, ms,
                      IF call.limit > 0 THEN call.limit ELSE Len(ms) + 1)

CommaCall(c) ==
  c.op = "split" /\ c.pattern = SlashComma /\ c.subject = CommaList /\ c.limit <= 0

\* C7: split with limit N > 0 returns at most N pieces; without a limit, for
\* a pattern (with or without capture groups) that has no zero-length match
\* in the subject, it returns exactly (number of matches + 1) pieces;
\* split("/,/", "a,b,,c") is ["a", "b", "", "c"].
C7_PieceCount ==
  (pc = "returned" /\ call.op = "split" /\ ret.kind = "list") =>
    \A ms \in { ExecAll(NativeOutcome(call.pattern, FALSE), call.subject, 0) } :
      /\ call.limit > 0 => Len(ret.items) <= call.limit
      /\ (call.limit <= 0 /\ NoEmptyMatch(ms)) => Len(ret.items) = Len(ms) + 1
      /\ CommaCall(call) =>
           ret.items = << Text(<< "a" >>), Text(<< "b" >>), Text(<<>>),
                          Text(<< "c" >>) >>

\* C8: the literal made of a delimiter, quote(text) and the delimiter
\* compiles, matchOne with it returns 1 exactly when the subject contains
\* text, and the whole match is then text.
C8_QuoteRoundTrip ==
  (pc = "returned" /\ call.op = "match" /\ call.quoted /\ ~call.delimiter.given) =>
    /\ ret.kind = "int"
    /\ (ret.n = 1) <=> Contains(call.subject, call.text)
    /\ ret.n = 1 => matches.row[1].text = call.text

HelloCall(c) ==
  c.op = "match" /\ c.pattern = HelloI /\ c.subject = HelloWorld /\ c.offset = 0

\* the positions of the searched text at which the compiled pattern matches
Hits(re, text) == { p \in 0..Len(text) : MatchAt(re, text, p) # <<>> }

\* C9: matchOne returns false only when the literal does not compile; else
\* it returns 1 when the pattern with its modifiers matches somewhere in
\* subject[offset:], entry 0 of the row then being the whole text of the
\* leftmost match, and 0 when nothing matches;
\* matchOne("/hello/i", "Hello world") is 1 with row[0] = "Hello".
C9_MatchOne ==
  (pc = "returned" /\ call.op = "match" /\ ~call.quoted) =>
    IF FailsToCompile(call.pattern, TRUE) THEN ret.kind = "false"
    ELSE
      \A re \in { NativeOutcome(call.pattern, TRUE) } :
      \A text \in { SliceFrom(call.subject, call.offset) } :
      \A hits \in { Hits(re, text) } :
        /\ ret = RetInt(IF hits = {} THEN 0 ELSE 1)
        /\ (hits # {} /\ call.useOut) =>
             \A p \in { q \in hits : \A h \in hits : q <= h } :
               /\ matches.shape = "row"
               /\ matches.row[1].text = Slice(text, p, MatchAt(re, text, p)[1].e)
        /\ (HelloCall(call) /\ call.useOut) =>
             matches.row[1].text = << "H", "e", "l", "l", "o" >>

\* the example: a case-insensitive match at the start of the subject
C9_Witness ==
  /\ pc = "returned"
  /\ HelloCall(call)
  /\ call.useOut
  /\ ret = RetInt(1)
  /\ matches.row[1].text = << "H", "e", "l", "l", "o" >>

\* the flags with the other arrangement of the output asked for
OtherOrder(flags) ==
  IF BitSet(flags, PREG_SET_ORDER)
  THEN flags - PREG_SET_ORDER
       + (IF BitSet(flags, PREG_PATTERN_ORDER) THEN 0 ELSE PREG_PATTERN_ORDER)
  ELSE flags + PREG_SET_ORDER
       - (IF BitSet(flags, PREG_PATTERN_ORDER) THEN PREG_PATTERN_ORDER ELSE 0)

\* the output of matchAll holds n occurrences: n rows in set order, a list
\* of n entries under key 0 and under every other key in pattern order
HoldsOccurrences(out, n) ==
  IF out.shape = "set" THEN Len(out.table) = n
  ELSE /\ out.shape = "pattern"
       /\ Len(out.table) >= 1
       /\ \A k \in 1..Len(out.table) : Len(out.table[k]) = n

\* C10: the count matchAll returns equals the number of rows of its
\* set-order output and the length of every key's list of its pattern-order
\* output, and the same call with the other order returns the same count.
C10_CountSameInBothOrders ==
  (pc = "returned" /\ call.op = "matchAll" /\ call.useOut /\ ret.kind = "int") =>
    /\ HoldsOccurrences(matches, ret.n)
    /\ \A other \in { preg_match_all(call.pattern, call.subject, TRUE,
                                     EmptyContainer, OtherOrder(call.flags),
                                     call.offset, call.errBefore) } :
         /\ other.ret = ret
         /\ other.matches.shape # matches.shape
         /\ HoldsOccurrences(other.matches, ret.n)

\* two occurrences of a pattern with a group, in pattern order
C10_Witness ==
  /\ pc = "returned"
  /\ call.op = "matchAll"
  /\ call.useOut
  /\ ret = RetInt(2)
  /\ matches.shape = "pattern"
  /\ Len(matches.table) = 2

(***************************************************************************)
(* SpecGrep: preg_grep on lists of strings and numbers, both senses        *)
(***************************************************************************)
MaxGrepLen == 2

Apple == << "a", "p", "p", "l", "e" >>
Avocado == << "a", "v", "o", "c", "a", "d", "o" >>
Fruits == << Str(Apple), Str(Banana), Str(Avocado) >>
CaretA == << "/", "^", "a", "/" >>

GrepPatterns ==
  { CaretA, SlashA, << "/", "1", "/" >>, << "/", "^", "1", "/" >>,
    << "/", "a", "*", "/" >>, << "/", "(", "/" >> }
GrepEntries == { Str(<< "a" >>), Str(<< "b", "a" >>), Str(<<>>), Num(1), Num(10) }
GrepInputs ==
  UNION { [1..n -> GrepEntries] : n \in 0..MaxGrepLen } \cup { Fruits }
GrepFlags == { 0, PREG_GREP_INVERT, 2, 2 + PREG_GREP_INVERT }

NextGrep ==
  \/ Grep(GrepPatterns, GrepInputs, GrepFlags)
  \/ Return

SpecGrep == Init /\ [][NextGrep]_vars

\* the flags with the invert bit flipped
OtherSense(flags) ==
  IF BitSet(flags, PREG_GREP_INVERT) THEN flags - PREG_GREP_INVERT
  ELSE flags + PREG_GREP_INVERT

\* the entries of input, in order, whose string form re matches (sense
\* TRUE) or does not match (sense FALSE)
EntriesWhere(re, input, sense) ==
  SelectSeq(input, LAMBDA v : (Hits(re, StringOf(v)) # {}) = sense)

\* C11: grep returns, in input order and as the values given, exactly the
\* entries whose string form the pattern matches, and with the invert bit
\* exactly the others; the call with the other sense returns the rest; the
\* decision on an entry is the one grep takes on that entry alone;
\* grep("/^a/", [apple, banana, avocado]) is [apple, avocado], inverted
\* [banana].
C11_GrepKeepsMatches ==
  (pc = "returned" /\ call.op = "grep" /\ ret.kind = "list") =>
    \A re \in { NativeOutcome(call.pattern, TRUE) } :
    \A sense \in { ~BitSet(call.flags, PREG_GREP_INVERT) } :
      /\ ret.items = EntriesWhere(re, call.input, sense)
      /\ preg_grep(call.pattern, call.input, OtherSense(call.flags),
                   call.errBefore).ret.items
           = EntriesWhere(re, call.input, ~sense)
      /\ \A k \in 1..Len(call.input) :
           preg_grep(call.pattern, << call.input[k] >>, call.flags,
                     call.errBefore).ret.items
             = EntriesWhere(re, << call.input[k] >>, sense)
      /\ (call.pattern = CaretA /\ call.input = Fruits) =>
           ret.items = (IF sense THEN << Str(Apple), Str(Avocado) >>
                        ELSE << Str(Banana) >>)

\* a number kept as a number next to a string that is dropped
C11_Witness ==
  /\ pc = "returned"
  /\ call.op = "grep"
  /\ call.pattern = << "/", "1", "/" >>
  /\ call.input = << Str(<< "a" >>), Num(10) >>
  /\ call.flags = 0
  /\ ret.items = << Num(10) >>

\* the number of substitutions of the patterns from the i-th on in text:
\* for each pattern all its occurrences in the current text, or limit of
\* them if there are more
RECURSIVE SubstitutionsFrom(_, _, _, _, _)
SubstitutionsFrom(text, patterns, replacements, limit, i) ==
  IF i > Len(patterns) THEN 0
  ELSE Let(LAMBDA re :
         Let(LAMBDA n :
               (IF limit < 0 THEN n ELSE Min(limit, n))
                 + SubstitutionsFrom(FirstReplaced(text, re,
                                        ReplacementFor(replacements, i), limit),
                                     patterns, replacements, limit, i + 1),
             Len(ExecAll(re, text, 0))),
         NativeOutcome(patterns[i], FALSE))

RECURSIVE SumOver(_, _)
SumOver(ns, k) == IF k > Len(ns) THEN 0 ELSE ns[k] + SumOver(ns, k + 1)

\* C12: after a replace call in which every pattern compiles, a counter
\* that was passed holds the number of substitutions made, summed over all
\* patterns and all subjects, occurrences passed through because of the
\* limit not counted, whatever the counter held before the call.
C12_CounterIsTotalOfTheCall ==
  (pc = "returned" /\ call.op = "replace" /\ call.useOut /\ call.limit >= -1 /\
   \A lit \in LiteralsOf(call) : ~FailsToCompile(lit, FALSE)) =>
    countObj =
      [set |-> TRUE,
       count |-> SumOver([j \in 1..Len(call.subjects.items) |->
                            SubstitutionsFrom(call.subjects.items[j],
                                              call.patterns.items,
                                              call.replacement.items,
                                              call.limit, 1)], 1)]

\* the banana call with a counter an earlier call left at 7: two of the
\* three occurrences are substituted and the counter holds 2
C12_Witness ==
  /\ pc = "returned"
  /\ BananaCall(call)
  /\ call.countBefore = [set |-> TRUE, count |-> 7]
  /\ countObj = [set |-> TRUE, count |-> 2]

ReadOps == { "lastError", "lastErrorMsg", "quote" }

\* C13: lastErrorCode, lastErrorMessage and quote leave the error state as
\* it was before the call, and a read returns the code, or the message, of
\* that state; so reads in a sequence of such calls all return the same.
C13_ReadsLeaveErrorState ==
  (pc = "returned" /\ call.op \in ReadOps) =>
    /\ ErrState = call.errBefore
    /\ call.op = "lastError" => ret = RetInt(call.errBefore.code)
    /\ call.op = "lastErrorMsg" => ret = RetText(call.errBefore.msg)

\* a read of the code of a failed compile, the failure still recorded
C13_Witness ==
  /\ pc = "returned"
  /\ call.op = "lastError"
  /\ ret = RetInt(PREG_INTERNAL_ERROR)
  /\ pregLastError = PREG_INTERNAL_ERROR
  /\ pregLastErrorMsg # NoErrorMsg

ReservedCodes ==
  { PREG_BACKTRACK_LIMIT_ERROR, PREG_RECURSION_LIMIT_ERROR, PREG_BAD_UTF8_ERROR,
    PREG_BAD_UTF8_OFFSET_ERROR, PREG_JIT_STACKLIMIT_ERROR }

\* C14: in every reachable state the error code is NO_ERROR or
\* INTERNAL_ERROR, never one of the reserved codes 2..6, and while the code
\* is NO_ERROR the message is "PREG_NO_ERROR".
C14_OnlyTwoErrorCodes ==
  /\ pregLastError \in { PREG_NO_ERROR, PREG_INTERNAL_ERROR }
  /\ pregLastError \notin ReservedCodes
  /\ pregLastError = PREG_NO_ERROR => pregLastErrorMsg = NoErrorMsg

\* a failure is recorded and the caller has the result
C14_Witness ==
  /\ pc = "idle"
  /\ pregLastError = PREG_INTERNAL_ERROR
  /\ pregLastErrorMsg = << "Empty regex" >>

(***************************************************************************)
(* SpecTyped: calls with string arguments, and elements of replace's       *)
(* lists, that are not strings, after compiles that succeeded and failed   *)
(***************************************************************************)
TypedPatterns == { SlashA, << "/", "(", "/" >>, NotAString }
TypedSubjects == { << "a" >>, NotAString }
TypedPatternArgs ==
  { One(p) : p \in TypedPatterns } \cup
  { Many(<< p, q >>) : p \in TypedPatterns, q \in TypedPatterns }
TypedReplacementArgs ==
  { One(<< "b" >>), One(NotAString), Many(<< << "b" >>, NotAString >>) }
TypedSubjectArgs ==
  { One(<< "a" >>), One(NotAString), Many(<< << "a" >>, << "n" >> >>),
    Many(<<>>) }

NextTyped ==
  \/ Match(TypedPatterns, TypedSubjects, {0}, {0}, BOOLEAN)
  \/ MatchAll(TypedPatterns, TypedSubjects, {PREG_PATTERN_ORDER}, {0}, BOOLEAN)
  \/ Split(TypedPatterns, TypedSubjects, {-1})
  \/ Grep(TypedPatterns, FewInputs, {0})
  \/ Replace(TypedPatternArgs, TypedReplacementArgs, TypedSubjectArgs, {-1},
             ReplCountArgs)
  \/ Return

SpecTyped == Init /\ [][NextTyped]_vars

\* a string argument of the call, or an element of replace's pattern or
\* replacement list, is not a string
BadlyTyped(c) ==
  \/ c.op \in { "match", "matchAll", "split" } /\
     (c.pattern = NotAString \/ c.subject = NotAString)
  \/ c.op = "grep" /\ c.pattern = NotAString
  \/ c.op = "replace" /\
     \/ \E i \in 1..Len(c.patterns.items) : c.patterns.items[i] = NotAString
     \/ \E i \in 1..Len(c.replacement.items) : c.replacement.items[i] = NotAString
     \/ c.subjects = One(NotAString)

\* C15: a call with a wrongly typed argument, or with a non-string element
\* in replace's pattern or replacement list, raises an exception, and a call
\* that raised one left the error state, the output container and the
\* counter as they were before the call.
C15_TypeErrorsAtTheBoundary ==
  pc = "returned" =>
    /\ BadlyTyped(call) => ret.kind = "thrown"
    /\ ret.kind = "thrown" =>
         /\ ErrState = call.errBefore
         /\ matches = EmptyContainer
         /\ countObj = call.countBefore

\* the call c made again with the error state at err: what it returns and
\* leaves, its container and counter starting as they did for c
Replay(c, err) ==
  CASE c.op = "match" ->
         Let(LAMBDA r : [ret |-> r.ret, err |-> r.err, matches |-> r.matches,
                         countObj |-> NoCount],
             preg_match(c.pattern, c.subject, c.useOut, EmptyContainer, c.flags,
                        c.offset, err))
    [] c.op = "matchAll" ->
         Let(LAMBDA r : [ret |-> r.ret, err |-> r.err, matches |-> r.matches,
                         countObj |-> NoCount],
             preg_match_all(c.pattern, c.subject, c.useOut, EmptyContainer,
                            c.flags, c.offset, err))
    [] c.op = "split" ->
         Let(LAMBDA r : [ret |-> r.ret, err |-> r.err,
                         matches |-> EmptyContainer, countObj |-> NoCount],
             preg_split(c.pattern, c.subject, c.limit, 0, err))
    [] c.op = "grep" ->
         Let(LAMBDA r : [ret |-> r.ret, err |-> r.err,
                         matches |-> EmptyContainer, countObj |-> NoCount],
             preg_grep(c.pattern, c.input, c.flags, err))
    [] c.op = "replace" ->
         Let(LAMBDA r : [ret |-> r.ret, err |-> r.err,
                         matches |-> EmptyContainer, countObj |-> r.countObj],
             preg_replace(c.patterns, c.replacement, c.subjects, c.limit,
                          c.useOut, c.countBefore, err))
    [] c.op = "quote" ->
         [ret |-> RetText(preg_quote(c.text, c.delimiter)), err |-> err,
          matches |-> EmptyContainer, countObj |-> NoCount]
    [] c.op = "lastError" ->
         Let(LAMBDA r : [ret |-> r.ret, err |-> r.err,
                         matches |-> EmptyContainer, countObj |-> NoCount],
             preg_last_error(err))
    [] c.op = "lastErrorMsg" ->
         Let(LAMBDA r : [ret |-> r.ret, err |-> r.err,
                         matches |-> EmptyContainer, countObj |-> NoCount],
             preg_last_error_msg(err))

\* what the call in flight returned and left
Observed ==
  [ret |-> ret, err |-> ErrState, matches |-> matches, countObj |-> countObj]

\* error states a call can find: that of a success and that of a failure
PriorStates ==
  { setPregError(PREG_NO_ERROR, NoErrorMsg),
    setPregError(PREG_INTERNAL_ERROR, << "Empty regex" >>) }

\* C16 as stated: whatever the error state before it, a call of any
\* operation returns the same results and leaves the same error state.
C16_HistoryIndependent ==
  pc = "returned" => \A e \in PriorStates : Replay(call, e) = Observed

\* C16, amended: a call that compiles a literal returns the same results and
\* leaves the same error state whatever the error state before it; a call
\* that compiles nothing (quote, the two readers, replace with no subject or
\* no pattern) leaves the error state it found, and all but the readers
\* return the same results.
C16_CompilingCallsHistoryIndependent ==
  pc = "returned" =>
    \A e \in PriorStates :
      \A again \in { Replay(call, e) } :
        IF LastCompiled(call) # <<>> THEN again = Observed
        ELSE /\ again.err = e
             /\ ErrState = call.errBefore
             /\ call.op \notin { "lastError", "lastErrorMsg" } =>
                  again = [Observed EXCEPT !.err = e]

\* a replace over two subjects that found a failure recorded and left none
C16_Witness ==
  /\ pc = "returned"
  /\ call.op = "replace"
  /\ call.errBefore.code = PREG_INTERNAL_ERROR
  /\ ret.kind = "list"
  /\ Len(ret.items) = 2
  /\ pregLastError = PREG_NO_ERROR

(***************************************************************************)
(* SpecParse: the internal functions parsePattern, compile and             *)
(* stripExtended applied to literals, modifier suffixes and bodies         *)
(***************************************************************************)
\* what parsePattern returned: its three fields, or the message thrown
RetParsed(p) == [kind |-> "parsed", n |-> 0, items |-> << p.source, p.flags, p.modifiers >>]
RetError(msg) == [kind |-> "error", n |-> 0, items |-> << msg >>]
\* what compile returned: the flags of the RegExp built, or null
RetRegExp(re) == [kind |-> "regexp", n |-> 0, items |-> << re.flags >>]
RetNull == [kind |-> "null", n |-> 0, items |-> <<>>]

Parse(P) ==
  /\ pc = "idle"
  /\ \E p \in P :
       \E r \in { parsePattern(p) } :
         Finish([NoCall EXCEPT !.op = "parse", !.pattern = p],
                IF r.ok THEN RetParsed(r) ELSE RetError(r.msg),
                ErrState, EmptyContainer, NoCount)

\* compile as the exported function named caller calls it
Compile(P, Callers) ==
  /\ pc = "idle"
  /\ \E p \in P, caller \in Callers :
       \E c \in { compile(p, SingleFor[caller], ErrState) } :
         Finish([NoCall EXCEPT !.op = "compile", !.pattern = p,
                               !.caller = caller],
                IF c.null THEN RetNull ELSE RetRegExp(c.re),
                c.err, EmptyContainer, NoCount)

Strip(T) ==
  /\ pc = "idle"
  /\ \E t \in T :
       Finish([NoCall EXCEPT !.op = "strip", !.text = t],
              RetText(stripExtended(t)), ErrState, EmptyContainer, NoCount)

MaxParseLen == 4
MaxModLen == 3
MaxBodyLen == 4

ParseAlphabet == { "/", "a", "i", "x", "U", " " }
ParseLiterals == TextsUpTo(ParseAlphabet, MaxParseLen)
ModAlphabet == { "i", "m", "s", "u", "x", "A", "J" }
ModLiterals ==
  { SlashA \o mods : mods \in TextsUpTo(ModAlphabet, MaxModLen) }
    \cup { << "/", "(", "/" >>, << "/", "a", "/", "i", "e" >> }
Callers == DOMAIN SingleFor
\* the body a b #comment<newline>c
CommentedBody ==
  << "a", " ", "b", " ", "#", "c", "o", "m", "m", "e", "n", "t", "\n", "c" >>
BodyAlphabet == { "a", " ", "#", "\n", "[", "]", "\\" }
Bodies ==
  TextsUpTo(BodyAlphabet, MaxBodyLen)
    \cup { CommentedBody }

NextParse ==
  \/ Parse(ParseLiterals)
  \/ Compile(ModLiterals, Callers)
  \/ Strip(Bodies)
  \/ Return

SpecParse == Init /\ [][NextParse]_vars

\* k is the 1-based position of the closing delimiter of lit: the last
\* occurrence of its first character, after the first position
ClosesAt(lit, k) ==
  /\ k \in 2..Len(lit)
  /\ lit[k] = lit[1]
  /\ \A j \in (k+1)..Len(lit) : lit[j] # lit[1]

\* C17: parsePattern fails with "Empty regex" on a literal of fewer than 2
\* characters and with "Invalid delimiter" when the first character does
\* not occur again; otherwise, k being the last occurrence of the first
\* character, the modifiers are all that follows k and the body all that
\* lies between the first character and k (the source is the body, put
\* through stripExtended if x is a modifier), and a parse that still fails
\* names a character of those modifiers.
C17_ParseSplitsAtLastDelimiter ==
  (pc = "returned" /\ call.op = "parse") =>
    \A lit \in { call.pattern } :
      IF Len(lit) < 2 THEN ret = RetError(<< "Empty regex" >>)
      ELSE IF ~\E k \in 2..Len(lit) : lit[k] = lit[1]
      THEN ret = RetError(<< "Invalid delimiter" >>)
      ELSE \A k \in { j \in 2..Len(lit) : ClosesAt(lit, j) } :
        \A body \in { SubSeq(lit, 2, k - 1) } :
        \A mods \in { SubSeq(lit, k + 1, Len(lit)) } :
          IF ret.kind = "parsed"
          THEN /\ ret.items[3] = mods
               /\ ret.items[1] = (IF \E j \in 1..Len(mods) : mods[j] = "x"
                                  THEN stripExtended(body) ELSE body)
          ELSE /\ ret.kind = "error"
               /\ \E j \in 1..Len(mods) :
                    ret.items[1] \in
                      { << "Unsupported modifier '", mods[j], "'" >>,
                        << "Modifier 'e' is not supported for security reasons" >> }

\* a body that holds the delimiter: the literal "/a//" parses with body "a/"
C17_Witness ==
  /\ pc = "returned"
  /\ call.op = "parse"
  /\ call.pattern = << "/", "a", "/", "/" >>
  /\ ret.kind = "parsed"
  /\ ret.items[1] = << "a", "/" >>
  /\ ret.items[3] = <<>>

IteratingCallers == { "matchAll", "replace", "split" }

\* the letter c occurs in the text t
Occurs(c, t) == \E k \in 1..Len(t) : t[k] = c

\* C18: when compile hands a flag string to the native compiler, that string
\* has no repeated letter, holds each of i, m, s, u exactly when the
\* literal's modifiers hold it, holds no x and none of A, U, D, S, J (g and
\* i, m, s, u are its only letters), and holds g exactly when the caller is
\* one that iterates (matchAll, replace, split), not match or grep.
C18_FlagsHandedToTheCompiler ==
  (pc = "returned" /\ call.op = "compile" /\ ret.kind = "regexp") =>
    \A lit \in { call.pattern } :
    \A k \in { j \in 2..Len(lit) : ClosesAt(lit, j) } :
    \A mods \in { SubSeq(lit, k + 1, Len(lit)) } :
    \A flags \in { ret.items[1] } :
      /\ \A a, b \in 1..Len(flags) : a # b => flags[a] # flags[b]
      /\ \A c \in { "i", "m", "s", "u" } : Occurs(c, flags) <=> Occurs(c, mods)
      /\ \A c \in { "x", "A", "U", "D", "S", "J" } : ~Occurs(c, flags)
      /\ \A a \in 1..Len(flags) : flags[a] \in { "g", "i", "m", "s", "u" }
      /\ Occurs("g", flags) <=> call.caller \in IteratingCallers

\* a modifier written twice, next to x, for a caller that iterates: the
\* literal "/a/iix" compiled for split is handed the flags "gi"
C18_Witness ==
  /\ pc = "returned"
  /\ call.op = "compile"
  /\ call.caller = "split"
  /\ call.pattern = << "/", "a", "/", "i", "i", "x" >>
  /\ ret.kind = "regexp"
  /\ ret.items[1] = << "g", "i" >>

\* What each character of an extended-mode body is, reading left to right:
\* KindOf(t)[k] is "escape" for a backslash and for the character after it,
\* "class" for an unescaped "[" that opens a class, the "]" that closes it
\* and everything between, "comment" for an unescaped "#" outside a class
\* and everything up to and including the next newline, "space" for
\* unescaped whitespace outside a class, and "plain" otherwise.
KindOf(t) ==
  LET F[k \in 0..Len(t)] ==
        IF k = 0 THEN [kinds |-> <<>>, esc |-> FALSE, cls |-> FALSE, com |-> FALSE]
        ELSE LET p == F[k-1]
                 ch == t[k]
                 kind ==
                   IF p.com THEN "comment"
                   ELSE IF p.esc \/ ch = "\\" THEN "escape"
                   ELSE IF p.cls \/ ch = "[" THEN "class"
                   ELSE IF ch = "#" THEN "comment"
                   ELSE IF ch \in { " ", "\t", "\n", "\r", "\f" } THEN "space"
                   ELSE "plain"
             IN [kinds |-> Append(p.kinds, kind),
                 esc |-> kind = "escape" /\ ~p.esc,
                 cls |-> IF kind = "class" THEN ~(p.cls /\ ch = "]") ELSE p.cls,
                 com |-> kind = "comment" /\ ch # "\n"]
  IN F[Len(t)].kinds

\* the characters of t that are neither comment nor space, in order
WithoutCommentsAndSpace(t) ==
  \A kinds \in { KindOf(t) } :
    LET F[k \in 0..Len(t)] ==
          IF k = 0 THEN <<>>
          ELSE IF kinds[k] \in { "comment", "space" } THEN F[k-1]
          ELSE Append(F[k-1], t[k])
    IN ret.items = F[Len(t)]

\* C19: stripExtended returns its argument without the comments (an
\* unescaped "#" outside a character class, through the end of the line)
\* and without the unescaped whitespace outside character classes: every
\* escaped character, every character of a class and every other character
\* is copied in order; the body a b #comment<newline>c becomes abc.
\* parsePattern hands the body through it exactly when x is a modifier.
C19_ExtendedStripsCommentsAndSpace ==
  /\ (pc = "returned" /\ call.op = "strip") =>
       /\ WithoutCommentsAndSpace(call.text)
       /\ call.text = CommentedBody => ret.items = << "a", "b", "c" >>
  /\ (pc = "returned" /\ call.op = "parse" /\ ret.kind = "parsed") =>
       \A lit \in { call.pattern } :
       \A k \in { j \in 2..Len(lit) : ClosesAt(lit, j) } :
         IF Occurs("x", SubSeq(lit, k + 1, Len(lit)))
         THEN ret.items[1] = stripExtended(SubSeq(lit, 2, k - 1))
         ELSE ret.items[1] = SubSeq(lit, 2, k - 1)

\* the body of the claim's example, stripped to abc
C19_Witness ==
  /\ pc = "returned"
  /\ call.op = "strip"
  /\ call.text = CommentedBody
  /\ ret.items = << "a", "b", "c" >>

\* the flags with PREG_OFFSET_CAPTURE set
WithOffsetCapture(flags) ==
  IF BitSet(flags, PREG_OFFSET_CAPTURE) THEN flags ELSE flags + PREG_OFFSET_CAPTURE

\* found is a list of [text, offset] pairs that are successive occurrences
\* in the text searched, which starts at position base of the subject: each
\* is the text at its offset, and each starts after the start and not
\* before the end of the one before it
InOccurrenceOrder(found, searched, base) ==
  /\ \A i \in 1..Len(found) :
       /\ found[i].pair /\ ~found[i].null
       /\ found[i].off >= base
       /\ found[i].off - base + Len(found[i].text) <= Len(searched)
       /\ found[i].text = Slice(searched, found[i].off - base,
                                found[i].off - base + Len(found[i].text))
  /\ \A i \in 1..(Len(found) - 1) :
       /\ found[i+1].off > found[i].off
       /\ found[i+1].off >= found[i].off + Len(found[i].text)

\* C20: a preg_match_all call in pattern order that compiles and is given
\* an output container leaves in it a key 0 whose list has one entry per
\* occurrence, the whole matches in the order they occur in the text
\* searched (the subject from the offset on);
\* with no occurrence key 0 is there and holds the empty list.
C20_PatternOrderHasKeyZero ==
  (pc = "returned" /\ call.op = "matchAll" /\ call.useOut /\ ret.kind = "int"
     /\ ~BitSet(call.flags, PREG_SET_ORDER)) =>
    /\ matches.shape = "pattern"
    /\ Len(matches.table) >= 1
    /\ Len(matches.table[1]) = ret.n
    /\ ret.n = 0 => matches.table[1] = <<>>
    /\ \A located \in { preg_match_all(call.pattern, call.subject, TRUE,
                                       EmptyContainer, WithOffsetCapture(call.flags),
                                       call.offset, call.errBefore).matches.table[1] } :
         /\ Len(located) = ret.n
         /\ InOccurrenceOrder(located, Subj(call.subject, call.offset), call.offset)
         /\ \A i \in 1..ret.n :
              /\ matches.table[1][i].text = located[i].text
              /\ ~matches.table[1][i].null
              /\ matches.table[1][i].pair => matches.table[1][i] = located[i]

\* a pattern that compiles and does not occur in the subject: the count is
\* 0 and the output holds key 0 alone, with the empty list
C20_Witness ==
  /\ pc = "returned"
  /\ call.op = "matchAll"
  /\ call.useOut
  /\ call.pattern = SlashA
  /\ call.subject = << ",", "," >>
  /\ ret = RetInt(0)
  /\ matches.shape = "pattern"
  /\ matches.table = << <<>> >>

(***************************************************************************)
(* SpecPair: preg_replace with up to MaxPatterns patterns and replacement  *)
(* lists shorter than, as long as and longer than the pattern list         *)
(***************************************************************************)
MaxPatterns == 3

SlashN == << "/", "n", "/" >>
PairPatternArgs ==
  { One(q) : q \in { SlashA, SlashN } } \cup
  { Many(ps) : ps \in UNION { [1..n -> { SlashA, SlashN }] : n \in 1..MaxPatterns } }
PairReplacementArgs ==
  { One(<< "b" >>), One(<< "n" >>) } \cup
  { Many(rs) : rs \in UNION { [1..n -> { << "b" >>, << "a" >>, <<>> }] :
                               n \in 0..MaxPatterns } }
PairSubjectArgs ==
  { One(Banana), One(<< "a", "n" >>), Many(<< << "a" >>, << "n", "a" >> >>) }
PairLimits == { -1, 1 }

NextPair ==
  \/ Replace(PairPatternArgs, PairReplacementArgs, PairSubjectArgs, PairLimits,
             { NoCountArg })
  \/ Return

SpecPair == Init /\ [][NextPair]_vars

\* the replacement the claim pairs with pattern i: the single replacement
\* string, or entry i of the list, or the first entry when the list has no
\* entry i
PartnerOf(replacement, i) ==
  IF ~replacement.list THEN replacement.items[1]
  ELSE IF i <= Len(replacement.items) THEN replacement.items[i]
  ELSE replacement.items[1]

\* text after preg_replace(patterns[i], partner of i, text) for i, i+1, ...
\* in turn, each a call with one pattern and one replacement string
RECURSIVE PairedFrom(_, _, _, _, _)
PairedFrom(patterns, replacement, limit, i, text) ==
  IF i > Len(patterns) THEN RetText(text)
  ELSE Let(LAMBDA r : IF r.kind = "text"
                      THEN PairedFrom(patterns, replacement, limit, i + 1, r.items)
                      ELSE r,
           preg_replace(One(patterns[i]), One(PartnerOf(replacement, i)),
                        One(text), limit, FALSE, NoCount, ErrState).ret)

\* C21: a preg_replace call that is given a replacement string, or a
\* replacement list that is not empty, returns for each subject what
\* replacing pattern 1 by its partner, then pattern 2 by its partner, and so
\* on returns, the partner of pattern i being the string, or entry i of the
\* list, or the first entry of the list when it has no entry i.
C21_PairedPositionally ==
  (pc = "returned" /\ call.op = "replace" /\ ret.kind \in { "text", "list" }
     /\ (call.replacement.list => call.replacement.items # <<>>)) =>
    \A results \in { IF ret.kind = "list" THEN ret.items ELSE << ret >> } :
      /\ Len(results) = Len(call.subjects.items)
      /\ \A j \in 1..Len(results) :
           results[j] = PairedFrom(call.patterns.items, call.replacement,
                                   call.limit, 1, call.subjects.items[j])

\* three patterns and two replacements: in banana a becomes b, then n
\* becomes a, then the third pattern turns those a into the first
\* replacement, b
C21_Witness ==
  /\ pc = "returned"
  /\ call.op = "replace"
  /\ call.patterns = Many(<< SlashA, SlashN, SlashA >>)
  /\ call.replacement = Many(<< << "b" >>, << "a" >> >>)
  /\ call.subjects = One(Banana)
  /\ call.limit = -1
  /\ ret = RetText(<< "b", "b", "b", "b", "b", "b" >>)

\* text with one backslash before each character that is a metacharacter
\* or the one-character delimiter, when one is given
QuotedOnce(text, delimiter) ==
  Flatten([k \in 1..Len(text) |->
             IF text[k] \in SyntaxChars
                  \/ (delimiter.given /\ delimiter.text = << text[k] >>)
             THEN << "\\", text[k] >> ELSE << text[k] >>])

\* C22: preg_quote(text, d) returns text with exactly one backslash before
\* every metacharacter and before every occurrence of the delimiter d, all
\* other characters unchanged and in order; with no delimiter only the
\* metacharacters are escaped.
C22_QuoteEscapesOnce ==
  (pc = "returned" /\ call.op = "quote") =>
    ret = RetText(QuotedOnce(call.text, call.delimiter))

(***************************************************************************)
(* SpecRows: preg_match and preg_match_all on patterns with nested groups, *)
(* named groups and groups that do not participate, every flag             *)
(* combination, with search offsets                                        *)
(***************************************************************************)
\* (a)(?<x>a): a named group whose text also occurs before it
TwoAs == << "/", "(", "a", ")", "(", "?", "<", "x", ">", "a", ")", "/" >>
\* ((a)b): a group inside a group
Nested == << "/", "(", "(", "a", ")", "b", ")", "/" >>
\* (a)*(?<x>b)*, : a numbered and a named group that need not participate
Optional ==
  << "/", "(", "a", ")", "*", "(", "?", "<", "x", ">", "b", ")", "*", ",", "/" >>

RowPatterns ==
  { TwoAs, Nested, Optional, << "/", "a", "*", "/" >>, << "/", "(", "/" >> }
RowSubjects == TextsUpTo({ "a", "b", "," }, MaxSubjLen)
RowFlags ==
  { order + capture + asNull :
      order \in { 0, PREG_PATTERN_ORDER, PREG_SET_ORDER,
                  PREG_PATTERN_ORDER + PREG_SET_ORDER },
      capture \in { 0, PREG_OFFSET_CAPTURE },
      asNull \in { 0, PREG_UNMATCHED_AS_NULL } }

\* from the end of the subject, from its start, and from inside it
RowOffsets == { -1, 0, 1, 2 }

NextRows ==
  \/ Match(RowPatterns, RowSubjects, MatchFlags, RowOffsets, BOOLEAN)
  \/ MatchAll(RowPatterns, RowSubjects, RowFlags, RowOffsets, BOOLEAN)
  \/ Return

SpecRows == Init /\ [][NextRows]_vars

\* the result rows a container holds, one per occurrence: the row of
\* preg_match, the rows of set order, the columns of pattern order
RowsOf(container) ==
  IF container.shape = "row" THEN << container.row >>
  ELSE IF container.shape = "set" THEN container.table
  ELSE IF container.shape = "pattern"
  THEN [i \in 1..Len(container.table[1]) |->
          [k \in 1..Len(container.table) |-> container.table[k][i]]]
  ELSE <<>>

\* the occurrences the engine finds for a call that compiles: the leftmost
\* one for preg_match, all of them for preg_match_all
OccurrencesOf(c) ==
  IF c.op = "match"
  THEN Let(LAMBDA m : IF m.found THEN << m >> ELSE <<>>,
           ExecFrom(NativeOutcome(c.pattern, TRUE), SliceFrom(c.subject, c.offset), 0))
  ELSE ExecAll(NativeOutcome(c.pattern, FALSE), SliceFrom(c.subject, c.offset), 0)

\* the engine's values under the keys of a row, numeric keys first and
\* names after them
KeyedValues(m) == m.groups \o [k \in 1..Len(m.named) |-> m.named[k].v]

\* a call that compiled and wrote result rows into its container
WroteRows ==
  /\ pc = "returned"
  /\ call.op \in { "match", "matchAll" }
  /\ ~call.quoted
  /\ call.useOut
  /\ ret.kind = "int"
  /\ matches.shape # "empty"

\* C23: in every result row, every entry is a pair exactly when
\* PREG_OFFSET_CAPTURE is set; the entry of a group that did not participate
\* has offset -1 when it is a pair, and its text is null when
\* PREG_UNMATCHED_AS_NULL is set and the empty text otherwise.
C23_NonParticipatingGroups ==
  WroteRows =>
    \A rows \in { RowsOf(matches) } :
    \A ms \in { OccurrencesOf(call) } :
      /\ Len(rows) = Len(ms)
      /\ \A i \in 1..Len(rows) :
           \A vs \in { KeyedValues(ms[i]) } :
             /\ Len(rows[i]) = Len(vs)
             /\ \A k \in 1..Len(vs) :
                  /\ rows[i][k].pair <=> BitSet(call.flags, PREG_OFFSET_CAPTURE)
                  /\ vs[k].undef =>
                       /\ rows[i][k].pair => rows[i][k].off = -1
                       /\ rows[i][k].null <=> BitSet(call.flags, PREG_UNMATCHED_AS_NULL)
                       /\ rows[i][k].text = <<>>

\* neither optional group participates in matching "," : with both flags
\* the row holds (",", 0) and (null, -1) under keys 1, 2 and x
C23_Witness ==
  /\ pc = "returned"
  /\ call.op = "match"
  /\ call.pattern = Optional
  /\ call.subject = << "," >>
  /\ call.flags = PREG_OFFSET_CAPTURE + PREG_UNMATCHED_AS_NULL
  /\ matches.shape = "row"
  /\ matches.row = << Pair(<< "," >>, 0), PairNull(-1), PairNull(-1), PairNull(-1) >>

(***************************************************************************)
(* SpecLoop: the loop of preg_match_all, iteration by iteration, on        *)
(* patterns that match the empty string.  RowCap bounds the rows a run may *)
(* push: a run that reaches it stays in the loop.                          *)
(*                                                                         *)
(* The loop is sequential code that keeps running: a run may not stay      *)
(* forever in a state where the loop has a step to take.  That is weak     *)
(* fairness of the loop's step, WF_vars(LoopIterate(RowCap) \/ LoopExit),  *)
(* written out with Stepping in the place of ENABLED.  Stepping holds only *)
(* where a step is enabled (exec either finds an occurrence or returns     *)
(* null), so the condition asks no more of a run than WF does.             *)
(***************************************************************************)
RowCap == 6

LoopPatterns ==
  { << "/", "a", "*", "/" >>, << "/", "(", "a", ")", "*", "/" >>, SlashA,
    << "/", "^", "/", "m" >>, Optional, << "/", "(", "/" >> }
LoopSubjects == TextsUpTo({ "a", ",", "\n" }, MaxSubjLen)
LoopFlags == { PREG_PATTERN_ORDER, PREG_SET_ORDER + PREG_OFFSET_CAPTURE }

NextLoop ==
  \/ LoopEnter(LoopPatterns, LoopSubjects, LoopFlags, Offsets, BOOLEAN)
  \/ LoopIterate(RowCap)
  \/ LoopExit
  \/ Return

\* the loop runs and has room for the row of one more occurrence
Stepping == pc = "looping" /\ Len(ret.items) < RowCap

\* A call that entered its loop keeps running: JavaScript runs the while loop
\* to the end without yielding.  The condition is weak fairness of the loop
\* step, with Stepping standing for the step being enabled.
SpecLoop ==
  /\ Init
  /\ [][NextLoop]_vars
  /\ ([]<>(~Stepping) \/ []<><<LoopIterate(RowCap) \/ LoopExit>>_vars)

\* while the loop runs: the occurrences pushed so far start at strictly
\* increasing positions of the text searched, and there are at most as many
\* as that text has positions (its length + 1)
IncreasingStarts ==
  pc = "looping" =>
    /\ \A i \in 1..(Len(ret.items) - 1) : ret.items[i].index < ret.items[i+1].index
    /\ \A i \in 1..Len(ret.items) :
         ret.items[i].index \in 0..Len(SliceFrom(call.subject, call.offset))
    /\ Len(ret.items) <= Len(SliceFrom(call.subject, call.offset)) + 1

\* C24: every preg_match_all call whose pattern compiles leaves its loop
\* and returns, also when the pattern matches the empty string; the
\* occurrences it records start at strictly increasing positions and are at
\* most len(subject[offset:]) + 1, which the count returned equals.
C24_MatchAllTerminates ==
  /\ [](IncreasingStarts)
  /\ [](pc = "returned" /\ ret.kind = "int" =>
          ret.n <= Len(SliceFrom(call.subject, call.offset)) + 1)
  /\ (pc = "looping") ~> (pc = "returned" /\ ret.kind = "int")

\* a* in ",," : an empty match at each of the three positions, and the call
\* returns 3
C24_Witness ==
  /\ pc = "returned"
  /\ call.op = "matchAll"
  /\ call.pattern = << "/", "a", "*", "/" >>
  /\ call.subject = << ",", "," >>
  /\ call.offset = 0
  /\ ret = RetInt(3)

\* byKey is the transpose of byRow: under every key the row entries of the
\* occurrences, in order
IsTranspose(byKey, byRow) ==
  /\ \A k \in 1..Len(byKey) : Len(byKey[k]) = Len(byRow)
  /\ \A i \in 1..Len(byRow) :
       /\ Len(byRow[i]) = Len(byKey)
       /\ \A k \in 1..Len(byKey) : byKey[k][i] = byRow[i][k]

\* C25: preg_match_all arranges its output in set order exactly when the
\* PREG_SET_ORDER bit is set in flags and in pattern order otherwise; the
\* same call with the other arrangement returns the same count, and the
\* pattern-order output is the transpose of the set-order output under
\* every key, numbers and names.
C25_PatternOrderIsTranspose ==
  (WroteRows /\ call.op = "matchAll") =>
    /\ matches.shape = (IF BitSet(call.flags, PREG_SET_ORDER) THEN "set" ELSE "pattern")
    /\ \A other \in { preg_match_all(call.pattern, call.subject, TRUE,
                                     EmptyContainer, OtherOrder(call.flags),
                                     call.offset, call.errBefore) } :
         /\ other.ret = ret
         /\ IF matches.shape = "set"
            THEN other.matches.shape = "pattern"
                 /\ IsTranspose(other.matches.table, matches.table)
            ELSE other.matches.shape = "set"
                 /\ IsTranspose(matches.table, other.matches.table)

\* the two occurrences of (a)*(?<x>b)*, in "a,," with offsets, in set
\* order: two rows with the keys 0, 1, 2 and x
C25_Witness ==
  /\ pc = "returned"
  /\ call.op = "matchAll"
  /\ call.pattern = Optional
  /\ call.subject = << "a", ",", "," >>
  /\ call.flags = PREG_SET_ORDER + PREG_OFFSET_CAPTURE
  /\ call.offset = 0
  /\ call.useOut
  /\ ret = RetInt(2)
  /\ matches.shape = "set"
  /\ Len(matches.table) = 2
  /\ Len(matches.table[1]) = 4

\* subject[a : b] as the claim writes it: a position below 0 counts from
\* the end, positions past the end are clamped, and the text is empty when
\* a is not before b
TextBetween(subject, a, b) ==
  LET from == IF a < 0 THEN Max(Len(subject) + a, 0) ELSE Min(a, Len(subject))
      to == IF b < 0 THEN Max(Len(subject) + b, 0) ELSE Min(b, Len(subject))
  IN IF from < to THEN SubSeq(subject, from + 1, to) ELSE <<>>

\* C26: under PREG_OFFSET_CAPTURE and any search offset, the offset o of
\* the whole match in every row is the index of the occurrence in the text
\* searched plus the search offset, is not below the search offset, and the
\* original subject holds the whole match's text at o.
C26_WholeMatchOffset ==
  (WroteRows /\ BitSet(call.flags, PREG_OFFSET_CAPTURE)) =>
    \A rows \in { RowsOf(matches) } :
    \A ms \in { OccurrencesOf(call) } :
      /\ Len(rows) = Len(ms)
      /\ \A i \in 1..Len(rows) :
           \A whole \in { rows[i][1] } :
             /\ whole.pair
             /\ whole.off = ms[i].index + call.offset
             /\ whole.off >= call.offset
             /\ TextBetween(call.subject, whole.off, whole.off + Len(whole.text))
                  = whole.text

\* the numbered groups of occurrence m that participated, as row positions
\* (group k is position k + 1)
Participating(m) == { k \in 2..Len(m.groups) : ~m.groups[k].undef }

\* C27: under PREG_OFFSET_CAPTURE, every numbered group that participated
\* has an offset >= 0 at which the whole match holds the group's text,
\* inside the span of the whole match, and at or after the end of every
\* participating group before it, so the offsets never decrease.
C27_GroupOffsetsInsideTheMatch ==
  (WroteRows /\ BitSet(call.flags, PREG_OFFSET_CAPTURE)) =>
    \A rows \in { RowsOf(matches) } :
    \A ms \in { OccurrencesOf(call) } :
      /\ Len(rows) = Len(ms)
      /\ \A i \in 1..Len(rows) :
           \A whole \in { rows[i][1] } :
           \A k \in Participating(ms[i]) :
           \A e \in { rows[i][k] } :
             /\ e.pair
             /\ e.text = ms[i].groups[k].text
             /\ e.off >= 0
             /\ e.off >= whole.off
             /\ e.off + Len(e.text) <= whole.off + Len(whole.text)
             /\ Slice(whole.text, e.off - whole.off,
                      e.off - whole.off + Len(e.text)) = e.text
             /\ \A j \in Participating(ms[i]) :
                  j < k => e.off >= rows[i][j].off + Len(rows[i][j].text)

\* C29: in every result row, the entry under a group's name equals the entry
\* under that group's numeric index, as a plain value and, under
\* PREG_OFFSET_CAPTURE, as a pair with its offset.
C29_NamedEntryEqualsNumbered ==
  WroteRows =>
    \A rows \in { RowsOf(matches) } :
    \A ms \in { OccurrencesOf(call) } :
      /\ Len(rows) = Len(ms)
      /\ \A i \in 1..Len(rows) :
           \A k \in 1..Len(ms[i].named) :
             rows[i][Len(ms[i].groups) + k] = rows[i][ms[i].named[k].g + 1]

(***************************************************************************)
(* preg_match writing into a container the caller keeps from one call to   *)
(* the next (preg.js:217-226).  The container is an array ([]) or a plain  *)
(* object ({}); row holds the entries under its numeric keys, props the    *)
(* entries under its names, in the order the properties were created.      *)
(***************************************************************************)
KeptContainer(isArray, row, props) ==
  [shape |-> "kept", row |-> row, table |-> <<>>, isArray |-> isArray,
   props |-> props]

\* the names of the groups of a compiled pattern, in group order, as
\* Object.entries(match.groups) lists them
NamesOf(re) == SelectSeq(re.names, LAMBDA n : n # "")

\* the array out of withValues / withOffsets: its indexed entries and its
\* named properties
OutOf(re, row) ==
  LET names == NamesOf(re)
      n == Len(row) - Len(names)
  IN [row |-> SubSeq(row, 1, n),
      props |-> [k \in 1..Len(names) |-> [name |-> names[k], entry |-> row[n + k]]]]

\* matches[k] = out[k] for the names k of out: a property the container
\* already has takes the new value, a new property is added after the others
RECURSIVE AssignProps(_, _)
AssignProps(props, new) ==
  IF new = <<>> THEN props
  ELSE AssignProps(
         IF \E j \in 1..Len(props) : props[j].name = Head(new).name
         THEN [j \in 1..Len(props) |->
                 IF props[j].name = Head(new).name THEN Head(new) ELSE props[j]]
         ELSE Append(props, Head(new)),
         Tail(new))

\* preg.js:217-226: matches.length = 0 empties the indexed entries of an
\* array and leaves its named properties; every key of an object is deleted
WriteOut(kept, out) ==
  IF kept.isArray
  THEN KeptContainer(TRUE, out.row, AssignProps(kept.props, out.props))
  ELSE KeptContainer(FALSE, out.row, out.props)

preg_match_into(pattern, subject, kept, flags, offset, err) ==
  Let(LAMBDA r :
        [ret |-> r.ret, err |-> r.err,
         matches |-> IF r.ret = RetInt(1)
                     THEN WriteOut(kept,
                                   OutOf(NativeOutcome(pattern, TRUE), r.matches.row))
                     ELSE kept],
      preg_match(pattern, subject, TRUE, EmptyContainer, flags, offset, err))

\* the containers a call can be given: a new [] or {}, or the one the
\* previous call of the caller wrote
ContainersAtHand ==
  IF pc = "idle" THEN { KeptContainer(a, <<>>, <<>>) : a \in BOOLEAN }
  ELSE IF pc = "returned" /\ call.op = "matchInto" THEN { matches }
  ELSE {}

MatchInto(P, S, F, O) ==
  \E before \in ContainersAtHand :
  \E p \in P, s \in S, f \in F, o \in O :
    \E r \in { preg_match_into(p, s, before, f, o, ErrState) } :
      Finish([NoCall EXCEPT !.op = "matchInto", !.pattern = p, !.subject = s,
                            !.flags = f, !.offset = o, !.useOut = TRUE,
                            !.outBefore = before],
             r.ret, r.err, r.matches, NoCount)

\* (?<x>a)
NamedA == << "/", "(", "?", "<", "x", ">", "a", ")", "/" >>
\* (b)(?<y>a)*
NamedY ==
  << "/", "(", "b", ")", "(", "?", "<", "y", ">", "a", ")", "*", "/" >>

IntoPatterns == { SlashA, NamedA, NamedY, << "/", "(", "/" >> }
IntoSubjects == { <<>>, << "a" >>, << "b" >>, << "b", "a" >> }

NextInto ==
  \/ MatchInto(IntoPatterns, IntoSubjects, { 0, PREG_OFFSET_CAPTURE }, { 0 })
  \/ Return

SpecInto == Init /\ [][NextInto]_vars

\* the keys of a kept container with their entries: the indexed entries,
\* then the named ones
ContentsOf(container) ==
  [row |-> container.row,
   names |-> [k \in 1..Len(container.props) |-> container.props[k].name],
   entries |-> [k \in 1..Len(container.props) |-> container.props[k].entry]]

\* C28: a preg_match that returns 0 or false leaves the container it was
\* given as it was; one that returns 1 leaves in it exactly the keys of the
\* new row with the new row's entries, and nothing it held before.
C28_ContainerRewrittenOnlyOnMatch ==
  (pc = "returned" /\ call.op = "matchInto") =>
    IF ret = RetInt(1)
    THEN \A re \in { NativeOutcome(call.pattern, TRUE) } :
         \A m \in { ExecFrom(re, SliceFrom(call.subject, call.offset), 0) } :
         \A row \in { BuildRow(m, call.flags, call.offset) } :
           /\ matches.isArray = call.outBefore.isArray
           /\ ContentsOf(matches).names = NamesOf(re)
           /\ ContentsOf(matches).row \o ContentsOf(matches).entries = row
    ELSE /\ ret \in { RetInt(0), RetFalse }
         /\ matches = call.outBefore

\* the index of the first pattern of ps that fails to compile, 0 if none
FirstFailing(ps) ==
  LET bad == { i \in 1..Len(ps) : FailsToCompile(ps[i], FALSE) }
  IN IF bad = {} THEN 0 ELSE CHOOSE i \in bad : \A j \in bad : i <= j

\* a replace call that reached a pattern that fails to compile
FailedReplace ==
  /\ pc = "returned"
  /\ call.op = "replace"
  /\ Len(call.subjects.items) > 0
  /\ FirstFailing(call.patterns.items) > 0

\* C30: after a replace call that reached a pattern that fails to compile,
\* a counter that was passed is written and holds the substitutions made,
\* in every subject of the call, by the patterns before the failing one; no
\* subject's text is returned; and the error state is that of the failed
\* compile, the last compile attempt of the call.
C30_CounterWrittenOnFailure ==
  FailedReplace =>
    \A ps \in { call.patterns.items } :
    \A first \in { FirstFailing(ps) } :
      /\ call.useOut =>
           countObj =
             [set |-> TRUE,
              count |-> SumOver([j \in 1..Len(call.subjects.items) |->
                                   SubstitutionsFrom(call.subjects.items[j],
                                                     SubSeq(ps, 1, first - 1),
                                                     call.replacement.items,
                                                     call.limit, 1)], 1)]
      /\ IF call.subjects.list
         THEN /\ ret.kind = "list"
              /\ \A j \in 1..Len(ret.items) : ret.items[j] = RetFalse
         ELSE ret = RetFalse
      /\ ErrState = OutcomeOf(ps[first], FALSE)
      /\ pregLastError = PREG_INTERNAL_ERROR

\* /a/ then an unclosed group on the subjects a and naa, with a counter an
\* earlier call left at 7: /a/ substitutes once and twice, the counter
\* holds 3 and both results are false
C30_Witness ==
  /\ FailedReplace
  /\ call.patterns = Many(<< SlashA, << "/", "(", "/" >> >>)
  /\ call.subjects = Many(<< << "a" >>, << "n", "a", "a" >> >>)
  /\ call.limit = -1
  /\ call.countBefore = [set |-> TRUE, count |-> 7]
  /\ countObj = [set |-> TRUE, count |-> 3]
  /\ ret = RetList(<< RetFalse, RetFalse >>)
  /\ pregLastError = PREG_INTERNAL_ERROR

=============================================================================
